---- MODULE Spec2Model ----
(***************************************************************************)
(* Diagnosis code reconciliation of src/app.py: the code matcher           *)
(* (check_sdx_match and the check_sdx_match template filter), the CC/MCC   *)
(* comparison table (create_cc_mcc_comparison_data), the CC/MCC counts     *)
(* (calculate_cc_mcc_statistics), the merge of the comparison data         *)
(* (merge_comparison_with_parsed_data), the statistics of an account       *)
(* (calculate_account_statistics), the loop that creates SAMPLE_ACCOUNTS   *)
(* when the module is loaded, and the handlers of the review workflow      *)
(* (submit_feedback, move_to_queue, get_random_unreviewed, review) over    *)
(* the feedback file, served one at a time and by two threads.             *)
(*                                                                         *)
(* A Python string is a sequence of one-character strings, so that         *)
(* slicing, startswith, len and upper are computed and not assumed.        *)
(* The three values that are not strings are sequences holding one long    *)
(* word, which no string of the model can equal.                           *)
(***************************************************************************)
EXTENDS Integers, Sequences, FiniteSets, TLC

VARIABLES icd_code, account_num, csv_data, parsed_data, comparison_data, call, ret,
          DOCUMENTS_DATA, SAMPLE_ACCOUNTS, completed_accounts, pending_accounts,
          feedback_file, todo, requests

\* the globals of the review workflow, the feedback file, the accounts the
\* start-up loop has still to visit and the requests being served
workflow_vars ==
  <<DOCUMENTS_DATA, SAMPLE_ACCOUNTS, completed_accounts, pending_accounts,
    feedback_file, todo, requests>>

vars ==
  <<icd_code, account_num, csv_data, parsed_data, comparison_data, call, ret,
    workflow_vars>>

----------------------------------------------------------------------------
(* Values                                                                  *)

\* Python None (a null of the parsed LLM output)
None == <<"None">>
\* float('nan'): what pandas gives for an empty CSV cell
NaN == <<"NaN">>
\* a key the dict does not have
Absent == <<"Absent">>

IsStr(v) == v \notin {None, NaN, Absent}

\* bool(v) of Python: the empty string and None are false, nan is true
Truthy(v) == v # <<>> /\ v # None

\* str(v)
Str(v) ==
  IF v = NaN THEN <<"n", "a", "n">>
  ELSE IF v = None THEN <<"N", "o", "n", "e">>
  ELSE v

UpperChar(ch) ==
  CASE ch = "c" -> "C"
    [] ch = "m" -> "M"
    [] ch = "s" -> "S"
    [] ch = "d" -> "D"
    [] ch = "p" -> "P"
    [] ch = "x" -> "X"
    [] ch = "n" -> "N"
    [] ch = "a" -> "A"
    [] ch = "o" -> "O"
    [] ch = "e" -> "E"
    [] OTHER -> ch

\* s.upper()
Upper(s) == [i \in 1..Len(s) |-> UpperChar(s[i])]

\* s[:-1]
DropLast(s) == SubSeq(s, 1, Len(s) - 1)

\* s.startswith(p)
StartsWith(s, p) == Len(p) <= Len(s) /\ SubSeq(s, 1, Len(p)) = p

\* d.get(k, default) of a dict keyed by account
Get(d, k, default) == IF k \in DOMAIN d THEN d[k] ELSE default

\* key in item
HasKey(item, key) == item[key] # Absent

\* item.get(key, default)
ItemGet(item, key, default) == IF HasKey(item, key) THEN item[key] ELSE default

\* the value of the key or None: item.get(key)
ItemGetNone(item, key) == ItemGet(item, key, None)

EmptyDict == [a \in {} |-> <<>>]

\* no feedback_data.xlsx in the data directory
NoFile == [exists |-> FALSE, readable |-> FALSE, rows |-> <<>>]

\* the workflow globals as the module creates them, before anything is
\* loaded into them
NoWorkflow ==
  /\ DOCUMENTS_DATA = EmptyDict
  /\ SAMPLE_ACCOUNTS = EmptyDict
  /\ completed_accounts = {}
  /\ pending_accounts = {}
  /\ feedback_file = NoFile
  /\ todo = <<>>
  /\ requests = EmptyDict

CC == <<"C", "C">>
MCC == <<"M", "C", "C">>
SDX == <<"S", "D", "X">>

----------------------------------------------------------------------------
(* check_sdx_match                                                         *)

\* the for loop of check_sdx_match from index i on; "TypeError" when len()
\* is applied to a code that is no string
RECURSIVE SpecificityScan(_, _, _)
SpecificityScan(code, ground_truth_codes, i) ==
  IF i > Len(ground_truth_codes) THEN "SDX Mismatch"
  ELSE LET gt_code == ground_truth_codes[i] IN
    IF ~IsStr(code) THEN "TypeError"
    ELSE IF Len(code) > 1
    THEN IF ~IsStr(gt_code) THEN "TypeError"
         ELSE IF Len(gt_code) > 1
              THEN IF DropLast(code) = DropLast(gt_code) THEN "Specificity Issue"
                   ELSE IF StartsWith(code, gt_code) \/ StartsWith(gt_code, code)
                        THEN "Specificity Issue"
                        ELSE SpecificityScan(code, ground_truth_codes, i + 1)
              ELSE SpecificityScan(code, ground_truth_codes, i + 1)
    ELSE SpecificityScan(code, ground_truth_codes, i + 1)

InList(x, s) == \E i \in 1..Len(s) : s[i] = x

\* check_sdx_match with the direct match testing the first reference only
check_sdx_match_first_only(code, acct, csv) ==
  LET ground_truth_sdx == Get(csv.sdx, acct, <<>>)
      ground_truth_codes ==
        [i \in 1..Len(ground_truth_sdx) |-> ItemGet(ground_truth_sdx[i], "icd_code", <<>>)]
  IN IF ~Truthy(code) \/ ground_truth_codes = <<>> THEN "SDX Mismatch"
     ELSE IF code = ground_truth_codes[1] THEN "SDX Match"
     ELSE LET r == SpecificityScan(code, ground_truth_codes, 1)
          IN IF r = "TypeError" THEN "SDX Mismatch" ELSE r

\* check_sdx_match without the test of an empty candidate
check_sdx_match_no_empty_test(code, acct, csv) ==
  LET ground_truth_sdx == Get(csv.sdx, acct, <<>>)
      ground_truth_codes ==
        [i \in 1..Len(ground_truth_sdx) |-> ItemGet(ground_truth_sdx[i], "icd_code", <<>>)]
  IN IF ground_truth_codes = <<>> THEN "SDX Mismatch"
     ELSE IF InList(code, ground_truth_codes) THEN "SDX Match"
     ELSE LET r == SpecificityScan(code, ground_truth_codes, 1)
          IN IF r = "TypeError" THEN "SDX Mismatch" ELSE r

\* the loop of check_sdx_match without the test of the two lengths
RECURSIVE SpecificityScanNoLength(_, _, _)
SpecificityScanNoLength(code, ground_truth_codes, i) ==
  IF i > Len(ground_truth_codes) THEN "SDX Mismatch"
  ELSE LET gt_code == ground_truth_codes[i] IN
    IF ~IsStr(gt_code) THEN "TypeError"
    ELSE IF DropLast(code) = DropLast(gt_code) THEN "Specificity Issue"
    ELSE IF StartsWith(code, gt_code) \/ StartsWith(gt_code, code)
         THEN "Specificity Issue"
         ELSE SpecificityScanNoLength(code, ground_truth_codes, i + 1)

check_sdx_match_no_length_test(code, acct, csv) ==
  LET ground_truth_sdx == Get(csv.sdx, acct, <<>>)
      ground_truth_codes ==
        [i \in 1..Len(ground_truth_sdx) |-> ItemGet(ground_truth_sdx[i], "icd_code", <<>>)]
  IN IF ~Truthy(code) \/ ground_truth_codes = <<>> THEN "SDX Mismatch"
     ELSE IF InList(code, ground_truth_codes) THEN "SDX Match"
     ELSE LET r == SpecificityScanNoLength(code, ground_truth_codes, 1)
          IN IF r = "TypeError" THEN "SDX Mismatch" ELSE r

check_sdx_match(code, acct, csv) ==
  LET ground_truth_sdx == Get(csv.sdx, acct, <<>>)
      ground_truth_codes ==
        [i \in 1..Len(ground_truth_sdx) |-> ItemGet(ground_truth_sdx[i], "icd_code", <<>>)]
  IN IF ~Truthy(code) \/ ground_truth_codes = <<>> THEN "SDX Mismatch"
     ELSE IF InList(code, ground_truth_codes) THEN "SDX Match"
     ELSE LET r == SpecificityScan(code, ground_truth_codes, 1)
          IN IF r = "TypeError" THEN "SDX Mismatch" ELSE r

----------------------------------------------------------------------------
(* check_sdx_match_filter                                                  *)

\* "csv_data" of one entry of SAMPLE_ACCOUNTS: what the template hands to
\* the filter
AccountCsvData(acct, csv) ==
  [pdx |-> Get(csv.pdx, acct, <<>>), sdx |-> Get(csv.sdx, acct, <<>>)]

\* the loop that collects str(icd) of every item whose icd_code is truthy
FilterGroundTruthCodes(ground_truth_sdx) ==
  LET kept == SelectSeq(ground_truth_sdx,
                        LAMBDA item : Truthy(ItemGet(item, "icd_code", <<>>)))
  IN [i \in 1..Len(kept) |-> Str(kept[i].icd_code)]

\* the loop that collects every ground truth code that qualifies
SpecificityMatches(code, ground_truth_codes) ==
  SelectSeq(ground_truth_codes,
            LAMBDA gt_code :
              /\ Len(code) > 1
              /\ Len(gt_code) > 1
              /\ \/ DropLast(code) = DropLast(gt_code)
                 \/ StartsWith(code, gt_code)
                 \/ StartsWith(gt_code, code))

check_sdx_match_filter(code, acct, account_csv) ==
  IF code = None THEN [status |-> "SDX Mismatch", gt_codes |-> <<>>]
  ELSE
    LET c == Str(code)
        ground_truth_codes == FilterGroundTruthCodes(account_csv.sdx)
        specificity_matches == SpecificityMatches(c, ground_truth_codes)
    IN IF ~Truthy(c) \/ ground_truth_codes = <<>>
       THEN [status |-> "SDX Mismatch", gt_codes |-> ground_truth_codes]
       ELSE IF InList(c, ground_truth_codes)
       THEN [status |-> "SDX Match", gt_codes |-> <<c>>]
       ELSE IF specificity_matches # <<>>
       THEN [status |-> "Specificity Issue", gt_codes |-> specificity_matches]
       ELSE [status |-> "SDX Mismatch", gt_codes |-> ground_truth_codes]

----------------------------------------------------------------------------
(* create_cc_mcc_comparison_data                                           *)

\* an item of the "comb" column of the parsed results
CombItem(type, code, cc_mcc) ==
  [k \in {"type", "icd-10-cm code", "cc/mcc"} |->
     CASE k = "type" -> type
       [] k = "icd-10-cm code" -> code
       [] OTHER -> cc_mcc]

\* the combination_code_review list the two CC/MCC functions read ([] when
\* the account is not in parsed_data)
CombinationCodeReview(acct, parsed) ==
  IF acct \in DOMAIN parsed THEN parsed[acct].combination_code_review ELSE <<>>

\* item.get('type', '').upper() raises AttributeError on a type that is no
\* string; the loop looks at every item
TypeRaises(comb) ==
  \E i \in 1..Len(comb) : ~IsStr(ItemGet(comb[i], "type", <<>>))

\* llm_sdx_diagnoses: the items whose upper-cased type is SDX
LlmSdxDiagnoses(comb) ==
  SelectSeq(comb, LAMBDA item : Upper(ItemGet(item, "type", <<>>)) = SDX)

\* llm_icd_mapping[icd_code] = cc_mcc on a dict kept as the sequence of its
\* entries in insertion order: a key met again keeps its place
MappingPut(mapping, icd, cc_mcc) ==
  IF \E i \in 1..Len(mapping) : mapping[i].icd = icd
  THEN [i \in 1..Len(mapping) |->
          IF mapping[i].icd = icd THEN [icd |-> icd, cc_mcc |-> cc_mcc] ELSE mapping[i]]
  ELSE Append(mapping, [icd |-> icd, cc_mcc |-> cc_mcc])

\* the loop that fills llm_icd_mapping from the items i.. of llm_sdx_diagnoses
RECURSIVE LlmIcdMapping(_, _, _)
LlmIcdMapping(llm_sdx_diagnoses, i, mapping) ==
  IF i > Len(llm_sdx_diagnoses) THEN mapping
  ELSE LET item == llm_sdx_diagnoses[i]
           icd == ItemGet(item, "icd-10-cm code", <<>>)
           cc_mcc == ItemGet(item, "cc/mcc", <<>>)
       IN LlmIcdMapping(llm_sdx_diagnoses, i + 1,
                        IF Truthy(icd) THEN MappingPut(mapping, icd, cc_mcc) ELSE mapping)

MappingHas(mapping, icd) == \E i \in 1..Len(mapping) : mapping[i].icd = icd

MappingAt(mapping, icd) ==
  mapping[CHOOSE i \in 1..Len(mapping) : mapping[i].icd = icd].cc_mcc

\* gt_cc_mcc of a ground truth row: str() of the first of the two columns
\* the row has, '' for a false value or no column
GtCcMcc(gt_item) ==
  IF HasKey(gt_item, "cc_mcc")
  THEN (IF Truthy(gt_item.cc_mcc) THEN Str(gt_item.cc_mcc) ELSE <<>>)
  ELSE IF HasKey(gt_item, "ccmcc")
  THEN (IF Truthy(gt_item.ccmcc) THEN Str(gt_item.ccmcc) ELSE <<>>)
  ELSE <<>>

\* the row is shown: gt_cc_mcc and gt_cc_mcc.upper() in ['CC', 'MCC']
HasCcMcc(gt_item) ==
  Truthy(GtCcMcc(gt_item)) /\ Upper(GtCcMcc(gt_item)) \in {CC, MCC}

\* the loop over the keys that keeps the last key that qualifies
RECURSIVE LastSpecificity(_, _, _)
LastSpecificity(gt_icd, mapping, i) ==
  IF i > Len(mapping) THEN 0
  ELSE IF ~IsStr(gt_icd) THEN -1
  ELSE LET llm_code == mapping[i].icd
           later == LastSpecificity(gt_icd, mapping, i + 1)
       IN IF later > 0 THEN later
          ELSE IF /\ Len(gt_icd) > 1
                  /\ Len(llm_code) > 1
                  /\ \/ DropLast(gt_icd) = DropLast(llm_code)
                     \/ StartsWith(gt_icd, llm_code)
                     \/ StartsWith(llm_code, gt_icd)
               THEN i
               ELSE 0

\* the loop over the keys without the test of a prefix
RECURSIVE FirstSameCategory(_, _, _)
FirstSameCategory(gt_icd, mapping, i) ==
  IF i > Len(mapping) THEN 0
  ELSE IF ~IsStr(gt_icd) THEN -1
  ELSE LET llm_code == mapping[i].icd IN
    IF Len(gt_icd) > 1 /\ Len(llm_code) > 1 /\ DropLast(gt_icd) = DropLast(llm_code)
    THEN i
    ELSE FirstSameCategory(gt_icd, mapping, i + 1)

\* the loop over llm_icd_mapping.keys() from entry i on: the index of the
\* first key that qualifies, 0 when none does, -1 when len(gt_icd) raises
RECURSIVE FirstSpecificity(_, _, _)
FirstSpecificity(gt_icd, mapping, i) ==
  IF i > Len(mapping) THEN 0
  ELSE IF ~IsStr(gt_icd) THEN -1
  ELSE LET llm_code == mapping[i].icd IN
    IF Len(gt_icd) > 1 /\ Len(llm_code) > 1
    THEN IF DropLast(gt_icd) = DropLast(llm_code) THEN i
         ELSE IF StartsWith(gt_icd, llm_code) \/ StartsWith(llm_code, gt_icd) THEN i
         ELSE FirstSpecificity(gt_icd, mapping, i + 1)
    ELSE FirstSpecificity(gt_icd, mapping, i + 1)

\* the row with a key that only qualifies reported as a match
ComparisonRowLenient(gt_item, mapping) ==
  LET gt_icd == ItemGet(gt_item, "icd_code", <<>>)
      found == FirstSpecificity(gt_icd, mapping, 1)
  IN IF MappingHas(mapping, gt_icd)
     THEN [gt_icd |-> gt_icd, gt_cc_mcc |-> GtCcMcc(gt_item), llm_icd |-> gt_icd,
           llm_cc_mcc |-> MappingAt(mapping, gt_icd), match_type |-> "Match"]
     ELSE IF found > 0
     THEN [gt_icd |-> gt_icd, gt_cc_mcc |-> GtCcMcc(gt_item),
           llm_icd |-> mapping[found].icd, llm_cc_mcc |-> mapping[found].cc_mcc,
           match_type |-> "Match"]
     ELSE [gt_icd |-> gt_icd, gt_cc_mcc |-> GtCcMcc(gt_item), llm_icd |-> None,
           llm_cc_mcc |-> None, match_type |-> "Mismatch"]

\* the row appended for one ground truth row that has a CC/MCC value
ComparisonRow(gt_item, mapping) ==
  LET gt_icd == ItemGet(gt_item, "icd_code", <<>>)
      found == FirstSpecificity(gt_icd, mapping, 1)
  IN IF MappingHas(mapping, gt_icd)
     THEN [gt_icd |-> gt_icd, gt_cc_mcc |-> GtCcMcc(gt_item), llm_icd |-> gt_icd,
           llm_cc_mcc |-> MappingAt(mapping, gt_icd), match_type |-> "Match"]
     ELSE IF found > 0
     THEN [gt_icd |-> gt_icd, gt_cc_mcc |-> GtCcMcc(gt_item),
           llm_icd |-> mapping[found].icd, llm_cc_mcc |-> mapping[found].cc_mcc,
           match_type |-> "Specificity Issue"]
     ELSE [gt_icd |-> gt_icd, gt_cc_mcc |-> GtCcMcc(gt_item), llm_icd |-> None,
           llm_cc_mcc |-> None, match_type |-> "Mismatch"]

\* the search of a shown row raises: gt_icd is no string, is no key of the
\* mapping, and the mapping has a key to compare it with
RowRaises(gt_item, mapping) ==
  LET gt_icd == ItemGet(gt_item, "icd_code", <<>>)
  IN /\ HasCcMcc(gt_item)
     /\ ~MappingHas(mapping, gt_icd)
     /\ FirstSpecificity(gt_icd, mapping, 1) = -1

create_cc_mcc_comparison_data(acct, parsed, csv) ==
  LET ground_truth_sdx == Get(csv.sdx, acct, <<>>)
      comb == CombinationCodeReview(acct, parsed)
      llm_icd_mapping == LlmIcdMapping(LlmSdxDiagnoses(comb), 1, <<>>)
      shown == SelectSeq(ground_truth_sdx, HasCcMcc)
  IN IF TypeRaises(comb) THEN <<>>
     ELSE IF \E i \in 1..Len(ground_truth_sdx) :
               RowRaises(ground_truth_sdx[i], llm_icd_mapping)
     THEN <<>>
     ELSE [i \in 1..Len(shown) |-> ComparisonRow(shown[i], llm_icd_mapping)]

----------------------------------------------------------------------------
(* calculate_cc_mcc_statistics                                             *)

\* cc_mcc of a ground truth row in the counting loop: str().upper() of the
\* first of the two columns the row has, '' for a false value, None for no
\* column
GtCcMccUpper(item) ==
  IF HasKey(item, "cc_mcc")
  THEN (IF Truthy(item.cc_mcc) THEN Upper(Str(item.cc_mcc)) ELSE <<>>)
  ELSE IF HasKey(item, "ccmcc")
  THEN (IF Truthy(item.ccmcc) THEN Upper(Str(item.ccmcc)) ELSE <<>>)
  ELSE None

\* cc_mcc of an extracted item: item.get('cc/mcc', '').upper() if
\* item.get('cc/mcc') else ''
LlmCcMccUpper(item) ==
  IF Truthy(ItemGetNone(item, "cc/mcc"))
  THEN Upper(ItemGet(item, "cc/mcc", <<>>))
  ELSE <<>>

ZeroCcMccStats == [gt_cc |-> 0, gt_mcc |-> 0, llm_cc |-> 0, llm_mcc |-> 0]

calculate_cc_mcc_statistics(acct, parsed, csv) ==
  LET ground_truth_sdx == Get(csv.sdx, acct, <<>>)
      comb == CombinationCodeReview(acct, parsed)
      llm_sdx_diagnoses == LlmSdxDiagnoses(comb)
  IN IF TypeRaises(comb) THEN ZeroCcMccStats
     ELSE [gt_cc |-> Len(SelectSeq(ground_truth_sdx, LAMBDA item : GtCcMccUpper(item) = CC)),
           gt_mcc |-> Len(SelectSeq(ground_truth_sdx, LAMBDA item : GtCcMccUpper(item) = MCC)),
           llm_cc |-> Len(SelectSeq(llm_sdx_diagnoses, LAMBDA item : LlmCcMccUpper(item) = CC)),
           llm_mcc |-> Len(SelectSeq(llm_sdx_diagnoses, LAMBDA item : LlmCcMccUpper(item) = MCC))]

----------------------------------------------------------------------------
(* merge_comparison_with_parsed_data                                       *)

PDX == <<"P", "D", "X">>
\* the placeholder 'N/A'
NA == <<"N", "/", "A">>

\* an item of the "A. Coded Diagnoses Table" column of the parsed results
DiagnosisItem(type, code) ==
  [k \in {"Type", "ICD-10-CM Code", "Diagnosis/Condition"} |->
     CASE k = "Type" -> type
       [] k = "ICD-10-CM Code" -> code
       [] OTHER -> Absent]

\* a row of the comparison data as load_coded_vs_llm_comparison builds it
\* from a row of pdx_gt.csv or sdx_gt.csv
ComparisonItem(type, code) ==
  [type |-> type,
   coded_icd |-> code,
   coded_description |-> type \o <<" ", "-", " ">> \o Str(code),
   llm_icd |-> code,
   llm_description |-> type \o <<" ", "-", " ">> \o Str(code),
   match_status |-> "Match"]

\* the diagnoses of the account followed by those of another account
CodedDiagnosesOfAllAccounts(acct, parsed) ==
  LET own == IF acct \in DOMAIN parsed THEN parsed[acct].coded_diagnoses ELSE <<>>
      others == DOMAIN parsed \ {acct}
  IN IF others = {} THEN own
     ELSE own \o parsed[CHOOSE a \in others : TRUE].coded_diagnoses

\* parsed_data.get(account_num, {}).get('coded_diagnoses', [])
CodedDiagnoses(acct, parsed) ==
  IF acct \in DOMAIN parsed THEN parsed[acct].coded_diagnoses ELSE <<>>

\* d.get('Type', '').upper() raises AttributeError on a Type that is no
\* string; it is evaluated for every diagnosis of the list
DiagnosisTypeRaises(coded_diagnoses) ==
  \E i \in 1..Len(coded_diagnoses) : ~IsStr(ItemGet(coded_diagnoses[i], "Type", <<>>))

\* all_parsed_codes of one account: one row for every parsed diagnosis
\* that has a code, marked Match when the code is a coded_icd of an SDX
\* row of the comparison data
AllParsedCodes(comparison_items, parsed_diagnoses) ==
  LET ground_truth_sdx_codes ==
        {comparison_items[i].coded_icd :
           i \in {j \in 1..Len(comparison_items) : comparison_items[j].type = SDX}}
      with_code ==
        SelectSeq(parsed_diagnoses,
                  LAMBDA d : Truthy(ItemGet(d, "ICD-10-CM Code", <<>>)))
  IN [i \in 1..Len(with_code) |->
        LET icd == ItemGet(with_code[i], "ICD-10-CM Code", <<>>)
            description == ItemGet(with_code[i], "Diagnosis/Condition", <<>>)
        IN [type |-> Upper(ItemGet(with_code[i], "Type", <<>>)),
            coded_icd |-> icd,
            coded_description |-> description,
            llm_icd |-> icd,
            llm_description |-> description,
            match_status |-> IF icd \in ground_truth_sdx_codes \ {NaN}
                             THEN "Match" ELSE "Mismatch"]]

\* the accounts of the comparison data, each with the rows of its parsed
\* diagnoses; the comparison data itself when anything raised
merge_comparison_with_parsed_data(comparison, parsed) ==
  IF \E a \in DOMAIN comparison : DiagnosisTypeRaises(CodedDiagnoses(a, parsed))
  THEN comparison
  ELSE [a \in DOMAIN comparison |->
          AllParsedCodes(comparison[a], CodedDiagnoses(a, parsed))]

----------------------------------------------------------------------------
(* calculate_account_statistics                                            *)

\* a == b of Python on codes: nan equals nothing, itself included
PyEq(a, b) == a = b /\ a # NaN

\* round(m / t * 100, 1) in tenths of a percent (no tie falls on a half
\* of a tenth for t < 16)
RoundTenths(m, t) == (2000 * m + t) \div (2 * t)

\* an except branch that was not given the severity counts
SentinelStatisticsWithoutSeverity ==
  [total_sdx |-> 0, llm_matched_sdx |-> 0, matched_icds |-> 0, accuracy |-> 0,
   pdx_coded |-> NA, pdx_llm |-> NA, pdx_matched |-> FALSE]

\* the result of the except branch
SentinelStatistics ==
  [total_sdx |-> 0, llm_matched_sdx |-> 0, matched_icds |-> 0, accuracy |-> 0,
   pdx_coded |-> NA, pdx_llm |-> NA, pdx_matched |-> FALSE,
   cc_mcc_stats |-> ZeroCcMccStats]

\* what raises inside the try: item['icd_code'] on a row without the key
\* (KeyError) and .upper() on a Type that is no string (AttributeError)
StatisticsRaises(acct, parsed, csv) ==
  LET ground_truth_sdx == Get(csv.sdx, acct, <<>>)
  IN \/ \E i \in 1..Len(ground_truth_sdx) : ~HasKey(ground_truth_sdx[i], "icd_code")
     \/ DiagnosisTypeRaises(CodedDiagnoses(acct, parsed))

\* matched SDX counted over the list of parsed SDX diagnoses and not over
\* the set of their codes
calculate_account_statistics_per_diagnosis(acct, parsed, csv, comparison) ==
  LET coded_diagnoses == CodedDiagnoses(acct, parsed)
      ground_truth_sdx == Get(csv.sdx, acct, <<>>)
      ground_truth_sdx_codes ==
        {ground_truth_sdx[i].icd_code : i \in 1..Len(ground_truth_sdx)}
      sdx_diagnoses ==
        SelectSeq(coded_diagnoses, LAMBDA d : Upper(ItemGet(d, "Type", <<>>)) = SDX)
      matched_sdx ==
        Len(SelectSeq(sdx_diagnoses,
                      LAMBDA d : ItemGet(d, "ICD-10-CM Code", <<>>)
                                   \in ground_truth_sdx_codes \ {NaN}))
      matched_icds == Len(Get(comparison, acct, <<>>))
      total_icds == Len(coded_diagnoses)
      pdx_diagnoses ==
        SelectSeq(coded_diagnoses, LAMBDA d : Upper(ItemGet(d, "Type", <<>>)) = PDX)
      pdx_llm ==
        IF pdx_diagnoses # <<>> THEN ItemGet(pdx_diagnoses[1], "ICD-10-CM Code", NA) ELSE NA
      ground_truth_pdx == Get(csv.pdx, acct, <<>>)
      pdx_coded ==
        IF ground_truth_pdx # <<>> THEN ItemGet(ground_truth_pdx[1], "icd_code", NA) ELSE NA
  IN IF StatisticsRaises(acct, parsed, csv) THEN SentinelStatistics
     ELSE [total_sdx |-> Len(ground_truth_sdx),
           llm_matched_sdx |-> matched_sdx,
           matched_icds |-> matched_icds,
           accuracy |-> IF total_icds > 0 THEN RoundTenths(matched_icds, total_icds) ELSE 0,
           pdx_coded |-> Str(pdx_coded),
           pdx_llm |-> Str(pdx_llm),
           pdx_matched |-> PyEq(pdx_coded, pdx_llm) /\ pdx_coded # NA,
           cc_mcc_stats |-> calculate_cc_mcc_statistics(acct, parsed, csv)]

\* accuracy is in tenths of a percent
calculate_account_statistics(acct, parsed, csv, comparison) ==
  LET coded_diagnoses == CodedDiagnoses(acct, parsed)
      ground_truth_sdx == Get(csv.sdx, acct, <<>>)
      ground_truth_sdx_codes ==
        {ground_truth_sdx[i].icd_code : i \in 1..Len(ground_truth_sdx)}
      total_sdx == Len(ground_truth_sdx)
      sdx_diagnoses ==
        SelectSeq(coded_diagnoses, LAMBDA d : Upper(ItemGet(d, "Type", <<>>)) = SDX)
      parsed_sdx_codes ==
        {ItemGet(sdx_diagnoses[i], "ICD-10-CM Code", <<>>) : i \in 1..Len(sdx_diagnoses)}
      matched_sdx == Cardinality((parsed_sdx_codes \cap ground_truth_sdx_codes) \ {NaN})
      matched_icds == Len(Get(comparison, acct, <<>>))
      total_icds == Len(coded_diagnoses)
      accuracy == IF total_icds > 0 THEN RoundTenths(matched_icds, total_icds) ELSE 0
      pdx_diagnoses ==
        SelectSeq(coded_diagnoses, LAMBDA d : Upper(ItemGet(d, "Type", <<>>)) = PDX)
      pdx_llm ==
        IF pdx_diagnoses # <<>> THEN ItemGet(pdx_diagnoses[1], "ICD-10-CM Code", NA) ELSE NA
      ground_truth_pdx == Get(csv.pdx, acct, <<>>)
      pdx_coded ==
        IF ground_truth_pdx # <<>> THEN ItemGet(ground_truth_pdx[1], "icd_code", NA) ELSE NA
      pdx_matched == PyEq(pdx_coded, pdx_llm) /\ pdx_coded # NA
  IN IF StatisticsRaises(acct, parsed, csv) THEN SentinelStatistics
     ELSE [total_sdx |-> total_sdx,
           llm_matched_sdx |-> matched_sdx,
           matched_icds |-> matched_icds,
           accuracy |-> accuracy,
           pdx_coded |-> Str(pdx_coded),
           pdx_llm |-> Str(pdx_llm),
           pdx_matched |-> pdx_matched,
           cc_mcc_stats |-> calculate_cc_mcc_statistics(acct, parsed, csv)]

----------------------------------------------------------------------------
(* Inputs                                                                  *)

\* the most records (CSV rows and parsed items together) of one account
MaxRecords == 3

Accounts == {"a1", "a2"}

\* code strings: no code, one character, a category, two codes of that
\* category that differ in the last character, and an unrelated code
Codes ==
  { <<>>, <<"E">>, <<"E", "1">>, <<"E", "1", "1">>, <<"E", "1", "2">>, <<"I", "2">> }

SeqsUpTo(S, n) == UNION {[1..k -> S] : k \in 0..n}

\* a row of the SDX ground truth as load_csv_data builds it
GtItem(code, cc_mcc, ccmcc) == [icd_code |-> code, cc_mcc |-> cc_mcc, ccmcc |-> ccmcc]

\* csv_data with the SDX rows of account a1 (no entry when it has no row)
CsvOf(rows) ==
  [pdx |-> EmptyDict,
   sdx |-> IF rows = <<>> THEN EmptyDict ELSE [a \in {"a1"} |-> rows]]

MatcherItems == {GtItem(c, <<>>, Absent) : c \in Codes \cup {NaN, Absent}}

\* parsed_data with the "comb" items of account a1
ParsedOf(comb) ==
  [a \in {"a1"} |-> [coded_diagnoses |-> <<>>, combination_code_review |-> comb]]

\* every way to give an account at most n records in all: ground truth
\* rows drawn from G and parsed items drawn from L
RecordsUpTo(G, L, n) ==
  UNION {SeqsUpTo(G, k) \X SeqsUpTo(L, n - k) : k \in 0..n}

\* the matcher: a candidate, an account and rows that differ in their code
InitMatcher ==
  /\ icd_code \in Codes \cup {None}
  /\ account_num \in Accounts
  /\ csv_data \in {CsvOf(rows) : rows \in SeqsUpTo(MatcherItems, MaxRecords)}
  /\ parsed_data = EmptyDict
  /\ comparison_data = EmptyDict
  /\ call = "none"
  /\ ret = "none"
  /\ NoWorkflow

\* rows with a severity in either column or a blank one
ComparisonGtItems ==
  {GtItem(c, sev[1], sev[2]) :
     c \in {<<"E", "1", "1">>, <<"E", "1">>, <<"E">>, <<>>, NaN},
     sev \in {<<CC, Absent>>, <<Absent, <<"m", "c", "c">>>>, <<<<>>, Absent>>}}

\* extracted items of role SDX (lower case), of another role and of a null
\* role
ComparisonCombItems ==
  {CombItem(t, c, CC) :
     t \in {<<"s", "d", "x">>, <<"P", "D", "X">>, None},
     c \in Codes \cup {None}}

\* the comparison table: the rows and the extracted items of account a1,
\* which is not in parsed_data at all in one more case
InitComparison ==
  /\ icd_code = None
  /\ account_num = "a1"
  /\ \E recs \in RecordsUpTo(ComparisonGtItems, ComparisonCombItems, MaxRecords) :
       /\ csv_data = CsvOf(recs[1])
       /\ parsed_data \in {ParsedOf(recs[2])} \cup (IF recs[2] = <<>> THEN {EmptyDict} ELSE {})
  /\ comparison_data = EmptyDict
  /\ call = "none"
  /\ ret = "none"
  /\ NoWorkflow

\* severity values: CC, MCC, lower case, another word, blank, an empty cell
SeverityValues ==
  {CC, MCC, <<"c", "c">>, <<"m", "c", "c">>, <<"X">>, <<>>, NaN}

\* rows with the severity in the cc_mcc column, in the ccmcc column or in
\* neither
SeverityGtItems ==
  {GtItem(<<"E", "1", "1">>, v, Absent) : v \in SeverityValues}
    \cup {GtItem(<<"E", "1", "1">>, Absent, v) : v \in {CC, <<"m", "c", "c">>, <<>>}}
    \cup {GtItem(<<"E", "1", "1">>, Absent, Absent)}

SeverityCombItems ==
  {CombItem(t, <<"E", "1", "1">>, v) :
     t \in {SDX, <<"s", "d", "x">>, <<"P", "D", "X">>, Absent, None},
     v \in {CC, <<"m", "c", "c">>, <<"X">>, <<>>, None, Absent}}

\* the counts: rows and extracted items that differ in role and severity
InitSeverity ==
  /\ icd_code = None
  /\ account_num = "a1"
  /\ \E recs \in RecordsUpTo(SeverityGtItems, SeverityCombItems, MaxRecords) :
       /\ csv_data = CsvOf(recs[1])
       /\ parsed_data \in {ParsedOf(recs[2])} \cup (IF recs[2] = <<>> THEN {EmptyDict} ELSE {})
  /\ comparison_data = EmptyDict
  /\ call = "none"
  /\ ret = "none"
  /\ NoWorkflow

\* the records of one account in the loaded files: parsed diagnoses,
\* SDX rows, PDX rows, "comb" items and rows of the comparison files
AccountRecords(diag, sdx, pdx, comb, cmp) ==
  [diag |-> diag, sdx |-> sdx, pdx |-> pdx, comb |-> comb, cmp |-> cmp]

\* parsed_data as load_parsed_results_data builds it, for the accounts
\* that have parsed items
ParsedFrom(w) ==
  [a \in {x \in DOMAIN w : w[x].diag # <<>> \/ w[x].comb # <<>>} |->
     [coded_diagnoses |-> w[a].diag, combination_code_review |-> w[a].comb]]

\* csv_data as load_csv_data builds it: an account is a key of the rows
\* it has
CsvFrom(w) ==
  [pdx |-> [a \in {x \in DOMAIN w : w[x].pdx # <<>>} |-> w[a].pdx],
   sdx |-> [a \in {x \in DOMAIN w : w[x].sdx # <<>>} |-> w[a].sdx]]

\* the comparison data as load_coded_vs_llm_comparison builds it
ComparisonFrom(w) ==
  [a \in {x \in DOMAIN w : w[x].cmp # <<>>} |-> w[a].cmp]

\* parsed diagnoses: roles SDX (also lower case) and PDX with a code, the
\* placeholder "-", an empty, a null and a missing code, and a null and a
\* missing role
StatisticsDiagnosisItems ==
  { DiagnosisItem(SDX, <<"E", "1", "1">>),
    DiagnosisItem(<<"s", "d", "x">>, <<"E", "1">>),
    DiagnosisItem(SDX, <<>>),
    DiagnosisItem(SDX, None),
    DiagnosisItem(PDX, <<"E", "1", "1">>),
    DiagnosisItem(PDX, <<"-">>),
    DiagnosisItem(PDX, <<>>),
    DiagnosisItem(PDX, Absent),
    DiagnosisItem(None, <<"E", "1", "1">>),
    DiagnosisItem(Absent, <<"E", "1", "1">>) }

StatisticsSdxItems ==
  { GtItem(<<"E", "1", "1">>, CC, Absent),
    GtItem(<<"E", "1">>, <<>>, Absent),
    GtItem(<<>>, <<>>, Absent),
    GtItem(NaN, NaN, Absent) }

StatisticsPdxItems ==
  { GtItem(<<"E", "1", "1">>, Absent, <<>>),
    GtItem(<<"E", "1">>, Absent, <<>>),
    GtItem(<<"-">>, Absent, <<>>),
    GtItem(<<>>, Absent, <<>>) }

StatisticsCombItems ==
  { CombItem(SDX, <<"E", "1", "1">>, CC),
    CombItem(None, <<"E", "1", "1">>, CC) }

StatisticsComparisonItems ==
  { ComparisonItem(SDX, <<"E", "1", "1">>),
    ComparisonItem(PDX, <<"E", "1", "1">>) }

\* every way to give an account at most n records in all
StatisticsRecordsUpTo(n) ==
  LET splits == {k \in [1..5 -> 0..n] : k[1] + k[2] + k[3] + k[4] + k[5] <= n}
  IN UNION { { AccountRecords(r[1], r[2], r[3], r[4], r[5]) :
                 r \in [1..k[1] -> StatisticsDiagnosisItems]
                       \X [1..k[2] -> StatisticsSdxItems]
                       \X [1..k[3] -> StatisticsPdxItems]
                       \X [1..k[4] -> StatisticsCombItems]
                       \X [1..k[5] -> StatisticsComparisonItems] } :
             k \in splits }

\* the other account: in no file, well formed in every file, with a null
\* role in its one parsed diagnosis, and with parsed items only
OtherAccountRecords ==
  { AccountRecords(<<>>, <<>>, <<>>, <<>>, <<>>),
    AccountRecords(<<DiagnosisItem(SDX, <<"E", "1", "1">>)>>,
                   <<GtItem(<<"E", "1", "1">>, CC, Absent)>>,
                   <<GtItem(<<"E", "1", "1">>, Absent, <<>>)>>,
                   <<CombItem(SDX, <<"E", "1", "1">>, CC)>>,
                   <<ComparisonItem(SDX, <<"E", "1", "1">>)>>),
    AccountRecords(<<DiagnosisItem(None, <<"E", "1", "1">>)>>,
                   <<>>, <<>>, <<>>,
                   <<ComparisonItem(SDX, <<"E", "1", "1">>)>>),
    AccountRecords(<<DiagnosisItem(PDX, <<"E", "1">>)>>,
                   <<>>, <<>>,
                   <<CombItem(None, <<"E", "1", "1">>, CC)>>,
                   <<>>) }

\* the statistics: the files are loaded, the comparison data is not merged
\* yet; account a1 is the one looked at
InitStatistics ==
  /\ icd_code = None
  /\ account_num = "a1"
  /\ \E own \in StatisticsRecordsUpTo(MaxRecords), other \in OtherAccountRecords :
       LET w == [a \in Accounts |-> IF a = "a1" THEN own ELSE other]
       IN /\ csv_data = CsvFrom(w)
          /\ parsed_data = ParsedFrom(w)
          /\ comparison_data = ComparisonFrom(w)
  /\ call = "none"
  /\ ret = "none"
  /\ NoWorkflow

----------------------------------------------------------------------------
(* Operations: each call leaves its name in call and its result in ret     *)

CheckSdxMatch ==
  /\ call' = "check_sdx_match"
  /\ ret' = check_sdx_match(icd_code, account_num, csv_data)
  /\ UNCHANGED <<icd_code, account_num, csv_data, parsed_data, comparison_data>>
  /\ UNCHANGED workflow_vars

CheckSdxMatchFilter ==
  /\ call' = "check_sdx_match_filter"
  /\ ret' = check_sdx_match_filter(icd_code, account_num,
                                   AccountCsvData(account_num, csv_data))
  /\ UNCHANGED <<icd_code, account_num, csv_data, parsed_data, comparison_data>>
  /\ UNCHANGED workflow_vars

CreateCcMccComparisonData ==
  /\ call' = "create_cc_mcc_comparison_data"
  /\ ret' = create_cc_mcc_comparison_data(account_num, parsed_data, csv_data)
  /\ UNCHANGED <<icd_code, account_num, csv_data, parsed_data, comparison_data>>
  /\ UNCHANGED workflow_vars

CalculateCcMccStatistics ==
  /\ call' = "calculate_cc_mcc_statistics"
  /\ ret' = calculate_cc_mcc_statistics(account_num, parsed_data, csv_data)
  /\ UNCHANGED <<icd_code, account_num, csv_data, parsed_data, comparison_data>>
  /\ UNCHANGED workflow_vars

\* COMPARISON_DATA = merge_comparison_with_parsed_data(COMPARISON_DATA_RAW,
\* PARSED_RESULTS_DATA), once, before any account is looked at
MergeComparisonWithParsedData ==
  /\ call = "none"
  /\ call' = "merge_comparison_with_parsed_data"
  /\ comparison_data' = merge_comparison_with_parsed_data(comparison_data, parsed_data)
  /\ ret' = comparison_data'
  /\ UNCHANGED <<icd_code, account_num, csv_data, parsed_data>>
  /\ UNCHANGED workflow_vars

\* the statistics computed by taking the diagnoses off the list
CalculateAccountStatisticsConsuming ==
  /\ call # "none"
  /\ call' = "calculate_account_statistics"
  /\ ret' = calculate_account_statistics(account_num, parsed_data, csv_data,
                                         comparison_data)
  /\ parsed_data' =
       [a \in DOMAIN parsed_data |->
          IF a = account_num /\ parsed_data[a].coded_diagnoses # <<>>
          THEN [parsed_data[a] EXCEPT !.coded_diagnoses = Tail(@)]
          ELSE parsed_data[a]]
  /\ UNCHANGED <<icd_code, account_num, csv_data, comparison_data>>
  /\ UNCHANGED workflow_vars

CalculateAccountStatistics ==
  /\ call # "none"
  /\ call' = "calculate_account_statistics"
  /\ ret' = calculate_account_statistics(account_num, parsed_data, csv_data,
                                         comparison_data)
  /\ UNCHANGED <<icd_code, account_num, csv_data, parsed_data, comparison_data>>
  /\ UNCHANGED workflow_vars

\* the table of the account, built after its statistics
CreateCcMccComparisonDataOfAccount ==
  /\ call # "none"
  /\ CreateCcMccComparisonData

NextMatcher == CheckSdxMatch \/ CheckSdxMatchFilter

SpecMatcher == InitMatcher /\ [][NextMatcher]_vars

NextComparison == CreateCcMccComparisonData

SpecComparison == InitComparison /\ [][NextComparison]_vars

NextSeverity == CalculateCcMccStatistics

SpecSeverity == InitSeverity /\ [][NextSeverity]_vars

NextStatistics ==
  \/ MergeComparisonWithParsedData
  \/ CalculateAccountStatistics
  \/ CreateCcMccComparisonDataOfAccount

SpecStatistics == InitStatistics /\ [][NextStatistics]_vars

----------------------------------------------------------------------------
(* The code matcher: C1 to C5                                              *)

IsMatcherCall == call \in {"check_sdx_match", "check_sdx_match_filter"}

\* the classification the last matcher call returned
Status == IF call = "check_sdx_match" THEN ret ELSE ret.status

\* the ground truth SDX rows of the account of the call, and their codes
GroundTruthSdx == Get(csv_data.sdx, account_num, <<>>)

ReferenceCodes ==
  [i \in 1..Len(GroundTruthSdx) |-> ItemGet(GroundTruthSdx[i], "icd_code", <<>>)]

NoExactMatch == ~InList(icd_code, ReferenceCodes)

\* a reference code that is a string longer than one character
LongReference(r) == IsStr(r) /\ Len(r) > 1

LongCandidate == IsStr(icd_code) /\ Len(icd_code) > 1

\* C1 as stated: a candidate that equals a code of the account's ground
\* truth SDX list is classified "SDX Match" by check_sdx_match and by the
\* filter.
C1_MatchWhenEqual ==
  (IsMatcherCall /\ InList(icd_code, ReferenceCodes)) => Status = "SDX Match"

\* C1 amended: a candidate that is not empty and equals a code of the
\* account's ground truth SDX list is classified "SDX Match" by
\* check_sdx_match and by the filter.
C1_MatchWhenEqualNonEmpty ==
  (IsMatcherCall /\ icd_code # <<>> /\ InList(icd_code, ReferenceCodes))
    => Status = "SDX Match"

\* a match found behind a first reference code that differs
C1_Witness ==
  /\ IsMatcherCall
  /\ icd_code # <<>>
  /\ Len(ReferenceCodes) > 1
  /\ ReferenceCodes[1] # icd_code
  /\ InList(icd_code, ReferenceCodes)
  /\ Status = "SDX Match"

\* C2: a matcher call always returns one of the three classifications (no
\* error leaves it), and it returns "SDX Mismatch" when the candidate is
\* empty or null or the account has no ground truth SDX code (no row, or
\* rows whose code is empty or missing).
C2_MismatchWhenNothingToCompare ==
  IsMatcherCall =>
    /\ Status \in {"SDX Match", "Specificity Issue", "SDX Mismatch"}
    /\ ( \/ ~Truthy(icd_code)
         \/ \A i \in 1..Len(ReferenceCodes) : ReferenceCodes[i] = <<>> )
       => Status = "SDX Mismatch"

\* an empty candidate against a list that holds an empty code
C2_Witness ==
  /\ call = "check_sdx_match"
  /\ icd_code = <<>>
  /\ InList(<<>>, ReferenceCodes)
  /\ ret = "SDX Mismatch"

\* C3 as stated: a candidate longer than one character with no equal
\* reference code, and some reference code longer than one character that
\* equals it once the last character of both is dropped, is classified
\* "Specificity Issue" by check_sdx_match and by the filter.
C3_SameCategory ==
  ( /\ IsMatcherCall
    /\ LongCandidate
    /\ NoExactMatch
    /\ \E i \in 1..Len(ReferenceCodes) :
         /\ LongReference(ReferenceCodes[i])
         /\ DropLast(ReferenceCodes[i]) = DropLast(icd_code) )
    => Status = "Specificity Issue"

\* C4 as stated: a candidate longer than one character with no equal
\* reference code, and some reference code longer than one character that
\* is a prefix of it or has it as a prefix, is classified "Specificity
\* Issue" by check_sdx_match and by the filter.
C4_PrefixContainment ==
  ( /\ IsMatcherCall
    /\ LongCandidate
    /\ NoExactMatch
    /\ \E i \in 1..Len(ReferenceCodes) :
         /\ LongReference(ReferenceCodes[i])
         /\ \/ StartsWith(icd_code, ReferenceCodes[i])
            \/ StartsWith(ReferenceCodes[i], icd_code) )
    => Status = "Specificity Issue"

\* C5: for a candidate of at most one character, or against reference codes
\* that all have at most one character, a matcher call never returns
\* "Specificity Issue", and returns "SDX Mismatch" when no reference code
\* equals the candidate.
C5_ShortCodesNeverSpecificity ==
  ( /\ IsMatcherCall
    /\ \/ IsStr(icd_code) /\ Len(icd_code) <= 1
       \/ \A i \in 1..Len(ReferenceCodes) :
            IsStr(ReferenceCodes[i]) /\ Len(ReferenceCodes[i]) <= 1 )
    => /\ Status # "Specificity Issue"
       /\ NoExactMatch => Status = "SDX Mismatch"

\* the candidate "E" against a list holding "E1", which has it as a prefix
C5_Witness ==
  /\ call = "check_sdx_match"
  /\ icd_code = <<"E">>
  /\ InList(<<"E", "1">>, ReferenceCodes)
  /\ NoExactMatch
  /\ ret = "SDX Mismatch"

----------------------------------------------------------------------------
(* The CC/MCC comparison table: C6 to C9                                   *)

IsComparisonCall == call = "create_cc_mcc_comparison_data"

\* the codes of the extracted records of role SDX, in the order of the
\* extracted records; a missing or null code is the empty code
ExtractedSdxCodes ==
  LET comb == CombinationCodeReview(account_num, parsed_data)
      sdx == SelectSeq(comb, LAMBDA item :
                              /\ IsStr(ItemGet(item, "type", <<>>))
                              /\ Upper(ItemGet(item, "type", <<>>)) = SDX)
  IN [i \in 1..Len(sdx) |->
        IF IsStr(ItemGet(sdx[i], "icd-10-cm code", <<>>))
        THEN ItemGet(sdx[i], "icd-10-cm code", <<>>)
        ELSE <<>>]

\* code r qualifies for code c under the two specificity rules
Qualifies(c, r) ==
  /\ IsStr(c) /\ Len(c) > 1
  /\ IsStr(r) /\ Len(r) > 1
  /\ \/ DropLast(c) = DropLast(r)
     \/ StartsWith(c, r)
     \/ StartsWith(r, c)

\* the ground truth SDX rows whose severity, upper-cased, is CC or MCC
SeverityRows ==
  SelectSeq(GroundTruthSdx,
            LAMBDA item : IsStr(GtCcMcc(item)) /\ Upper(GtCcMcc(item)) \in {CC, MCC})

\* C6: a row whose ground truth code equals no extracted SDX code while
\* some extracted SDX codes qualify under the specificity rules reports the
\* first of them in the order of the extracted records.
C6_FirstQualifyingReported ==
  IsComparisonCall =>
    \A i \in 1..Len(ret) :
      LET gt == ret[i].gt_icd
          codes == ExtractedSdxCodes
      IN ( /\ ~InList(gt, codes)
           /\ \E j \in 1..Len(codes) : Qualifies(gt, codes[j]) )
         => /\ Qualifies(gt, ret[i].llm_icd)
            /\ \E j \in 1..Len(codes) :
                 /\ codes[j] = ret[i].llm_icd
                 /\ \A k \in 1..(j - 1) : ~Qualifies(gt, codes[k])

\* a row for which two different extracted SDX codes qualify
C6_Witness ==
  /\ IsComparisonCall
  /\ \E i \in 1..Len(ret) :
       /\ ~InList(ret[i].gt_icd, ExtractedSdxCodes)
       /\ \E j, k \in 1..Len(ExtractedSdxCodes) :
            /\ j < k
            /\ ExtractedSdxCodes[j] # ExtractedSdxCodes[k]
            /\ Qualifies(ret[i].gt_icd, ExtractedSdxCodes[j])
            /\ Qualifies(ret[i].gt_icd, ExtractedSdxCodes[k])
            /\ ret[i].llm_icd = ExtractedSdxCodes[j]

\* csv_data holding the extracted SDX codes as the reference list
ReferenceCsv ==
  [pdx |-> EmptyDict,
   sdx |-> [a \in {account_num} |->
              [i \in 1..Len(ExtractedSdxCodes) |->
                 GtItem(ExtractedSdxCodes[i], <<>>, Absent)]]]

MatchTypeOf(status) ==
  CASE status = "SDX Match" -> "Match"
    [] status = "Specificity Issue" -> "Specificity Issue"
    [] OTHER -> "Mismatch"

\* C7: the match_type of every row is the classification check_sdx_match
\* gives the row's ground truth code against the extracted SDX codes of the
\* account.
C7_RowFollowsMatcher ==
  IsComparisonCall =>
    \A i \in 1..Len(ret) :
      ret[i].match_type =
        MatchTypeOf(check_sdx_match(ret[i].gt_icd, account_num, ReferenceCsv))

\* a row classified by the prefix rule alone
C7_Witness ==
  /\ IsComparisonCall
  /\ \E i \in 1..Len(ret) :
       /\ ret[i].match_type = "Specificity Issue"
       /\ DropLast(ret[i].gt_icd) # DropLast(ret[i].llm_icd)

\* C8 as stated: the rows are, in order, the ground truth SDX rows of the
\* account whose severity is CC or MCC, one row each.
C8_RowsAreSeverityRows ==
  IsComparisonCall =>
    /\ Len(ret) = Len(SeverityRows)
    /\ \A i \in 1..Len(ret) :
         /\ ret[i].gt_icd = ItemGet(SeverityRows[i], "icd_code", <<>>)
         /\ ret[i].gt_cc_mcc = GtCcMcc(SeverityRows[i])

\* C9: a row of match_type Match has an extracted code, and it is the
\* string of its ground truth code.
C9_MatchMeansEqual ==
  IsComparisonCall =>
    \A i \in 1..Len(ret) :
      ret[i].match_type = "Match" =>
        /\ IsStr(ret[i].llm_icd)
        /\ ret[i].llm_icd # <<>>
        /\ ret[i].llm_icd = ret[i].gt_icd

\* a table with a Match row and a row that is no Match
C9_Witness ==
  /\ IsComparisonCall
  /\ \E i, j \in 1..Len(ret) :
       /\ ret[i].match_type = "Match"
       /\ ret[j].match_type = "Specificity Issue"

----------------------------------------------------------------------------
(* The CC/MCC counts: C10                                                  *)

\* the severity value of a ground truth row (the column it has) and of an
\* extracted record, upper-cased; <<>> for a value that is no string
GtSeverity(item) ==
  LET v == IF HasKey(item, "cc_mcc") THEN item.cc_mcc ELSE item.ccmcc
  IN IF IsStr(v) THEN Upper(v) ELSE <<>>

LlmSeverity(item) ==
  LET v == item["cc/mcc"] IN IF IsStr(v) THEN Upper(v) ELSE <<>>

\* the extracted records of role SDX
ExtractedSdx ==
  SelectSeq(CombinationCodeReview(account_num, parsed_data),
            LAMBDA item : IsStr(item["type"]) /\ Upper(item["type"]) = SDX)

\* C10 as stated: gt_cc and gt_mcc count the ground truth SDX rows of the
\* account whose severity, upper-cased, is CC and MCC; llm_cc and llm_mcc
\* count the extracted records of role SDX whose severity, upper-cased, is
\* CC and MCC.
C10_CountsBySeverity ==
  call = "calculate_cc_mcc_statistics" =>
    /\ ret.gt_cc = Len(SelectSeq(GroundTruthSdx, LAMBDA item : GtSeverity(item) = CC))
    /\ ret.gt_mcc = Len(SelectSeq(GroundTruthSdx, LAMBDA item : GtSeverity(item) = MCC))
    /\ ret.llm_cc = Len(SelectSeq(ExtractedSdx, LAMBDA item : LlmSeverity(item) = CC))
    /\ ret.llm_mcc = Len(SelectSeq(ExtractedSdx, LAMBDA item : LlmSeverity(item) = MCC))

----------------------------------------------------------------------------
(* Claims about calculate_account_statistics, fed with the merged          *)
(* comparison data                                                         *)

IsStatisticsCall == call = "calculate_account_statistics"

\* the extracted diagnosis records of the account
ExtractedRecords == CodedDiagnoses(account_num, parsed_data)

\* the code of an extracted record, empty when it has none
ExtractedCode(d) == ItemGet(d, "ICD-10-CM Code", <<>>)

\* the role of an extracted record, upper-cased; a role that is no string
\* is no role
ExtractedRole(d) ==
  LET t == ItemGet(d, "Type", <<>>) IN IF IsStr(t) THEN Upper(t) ELSE <<>>

GroundTruthPdx == Get(csv_data.pdx, account_num, <<>>)

GroundTruthSdxCodes == {GroundTruthSdx[i].icd_code : i \in 1..Len(GroundTruthSdx)}

\* C11: matched_icds is the number of extracted records whose code the
\* Code Matcher classifies as a match against the ground-truth SDX codes
\* of the account.
C11_MatchedIcdsCountsMatches ==
  IsStatisticsCall =>
    ret.matched_icds =
      Len(SelectSeq(ExtractedRecords,
                    LAMBDA d : check_sdx_match(ExtractedCode(d), account_num, csv_data)
                                 = "SDX Match"))

\* C12: accuracy lies between 0.0 and 100.0 (in tenths of a percent) and is
\* 0.0 when the account has no extracted diagnosis record.
C12_AccuracyInRange ==
  IsStatisticsCall =>
    /\ ret.accuracy >= 0
    /\ ret.accuracy <= 1000
    /\ (ExtractedRecords = <<>> => ret.accuracy = 0)

\* the codes of the extracted records of role SDX
ExtractedSdxCodeSet ==
  {ExtractedCode(ExtractedRecords[i]) :
     i \in {j \in 1..Len(ExtractedRecords) : ExtractedRole(ExtractedRecords[j]) = SDX}}

\* C13: llm_matched_sdx is the size of the intersection of the set of codes
\* of the extracted SDX records and the set of ground-truth SDX codes, by
\* exact equality.
C13_MatchedSdxIsIntersection ==
  IsStatisticsCall =>
    ret.llm_matched_sdx = Cardinality(ExtractedSdxCodeSet \cap GroundTruthSdxCodes)

\* C14: llm_matched_sdx is never more than total_sdx, nor more than the
\* number of ground-truth SDX records of the account.
C14_MatchedSdxAtMostTotal ==
  IsStatisticsCall =>
    /\ ret.llm_matched_sdx <= ret.total_sdx
    /\ ret.llm_matched_sdx <= Len(GroundTruthSdx)

\* two extracted SDX records with one code, the one ground-truth SDX code
C14_Witness ==
  /\ IsStatisticsCall
  /\ Len(GroundTruthSdx) = 1
  /\ GroundTruthSdx[1].icd_code = <<"E", "1", "1">>
  /\ Len(SelectSeq(ExtractedRecords,
                   LAMBDA d : /\ ExtractedRole(d) = SDX
                              /\ ExtractedCode(d) = GroundTruthSdx[1].icd_code)) = 2
  /\ ret.llm_matched_sdx = 1
  /\ ret.total_sdx = 1

\* the extracted records of role PDX
ExtractedPdx == SelectSeq(ExtractedRecords, LAMBDA d : ExtractedRole(d) = PDX)

\* a real code: a string that is not empty and not the placeholder N/A
PresentCode(c) == IsStr(c) /\ c # <<>> /\ c # NA

\* C15: pdx_matched is true exactly when the account has a ground-truth PDX
\* code and an extracted PDX code that are both present and equal.
C15_PdxMatchedIffEqual ==
  IsStatisticsCall =>
    (ret.pdx_matched <=>
       /\ GroundTruthPdx # <<>>
       /\ ExtractedPdx # <<>>
       /\ PresentCode(GroundTruthPdx[1].icd_code)
       /\ PresentCode(ExtractedCode(ExtractedPdx[1]))
       /\ GroundTruthPdx[1].icd_code = ExtractedCode(ExtractedPdx[1]))

\* C16: pdx_llm is the code of the first extracted PDX record and pdx_coded
\* the code of the first ground-truth PDX record, N/A on a side without a
\* PDX record.
C16_FirstPdxRecords ==
  IsStatisticsCall =>
    /\ ret.pdx_llm = IF ExtractedPdx # <<>>
                     THEN Str(ItemGet(ExtractedPdx[1], "ICD-10-CM Code", NA))
                     ELSE NA
    /\ ret.pdx_coded = IF GroundTruthPdx # <<>>
                       THEN Str(GroundTruthPdx[1].icd_code)
                       ELSE NA

\* the statistics object that stands for a failed computation
AllZeroStatistics ==
  [total_sdx |-> 0, llm_matched_sdx |-> 0, matched_icds |-> 0, accuracy |-> 0,
   pdx_coded |-> <<"N", "/", "A">>, pdx_llm |-> <<"N", "/", "A">>,
   pdx_matched |-> FALSE,
   cc_mcc_stats |-> [gt_cc |-> 0, gt_mcc |-> 0, llm_cc |-> 0, llm_mcc |-> 0]]

\* an extracted record on which the computation fails: its role is there
\* and is no string
FailingRecord(d) == HasKey(d, "Type") /\ ~IsStr(d["Type"])

\* C17: calculate_account_statistics always returns an object with the
\* eight fields, and the all-zero, N/A sentinel whenever its computation
\* fails.
C17_SentinelOnFailure ==
  IsStatisticsCall =>
    /\ DOMAIN ret = {"total_sdx", "llm_matched_sdx", "matched_icds", "accuracy",
                     "pdx_coded", "pdx_llm", "pdx_matched", "cc_mcc_stats"}
    /\ DOMAIN ret.cc_mcc_stats = {"gt_cc", "gt_mcc", "llm_cc", "llm_mcc"}
    /\ ((\E i \in 1..Len(ExtractedRecords) : FailingRecord(ExtractedRecords[i]))
          => ret = AllZeroStatistics)

\* a failing record next to ground-truth rows and merged rows that a
\* computation would have counted
C17_Witness ==
  /\ IsStatisticsCall
  /\ \E i \in 1..Len(ExtractedRecords) : FailingRecord(ExtractedRecords[i])
  /\ Len(GroundTruthSdx) > 0
  /\ GroundTruthPdx # <<>>
  /\ ret = AllZeroStatistics

\* an extracted record with a role, code or severity that is missing or
\* null
MalformedDiagnosis(d) ==
  \/ d["Type"] \in {None, Absent}
  \/ d["ICD-10-CM Code"] \in {None, Absent}

MalformedCombItem(item) ==
  \/ item["type"] \in {None, Absent}
  \/ item["icd-10-cm code"] \in {None, Absent}
  \/ item["cc/mcc"] \in {None, Absent}

MalformedRecords ==
  Len(SelectSeq(ExtractedRecords, MalformedDiagnosis))
    + Len(SelectSeq(CombinationCodeReview(account_num, parsed_data), MalformedCombItem))

\* the codes of the well-formed extracted records of role SDX
WellFormedSdxCodes ==
  {ExtractedCode(ExtractedRecords[i]) :
     i \in {j \in 1..Len(ExtractedRecords) :
              /\ ~MalformedDiagnosis(ExtractedRecords[j])
              /\ ExtractedRole(ExtractedRecords[j]) = SDX}}

\* C18: with one malformed extracted record the statistics are not the
\* sentinel and keep what the other records contribute: total_sdx, the
\* matched SDX codes of the well-formed records, the ground-truth PDX code
\* and the ground-truth severity counts.
C18_MalformedRecordRecoveredLocally ==
  (IsStatisticsCall /\ MalformedRecords = 1) =>
    /\ ret.total_sdx = Len(GroundTruthSdx)
    /\ ret.llm_matched_sdx >= Cardinality(WellFormedSdxCodes \cap GroundTruthSdxCodes)
    /\ ret.pdx_coded = IF GroundTruthPdx # <<>> THEN Str(GroundTruthPdx[1].icd_code) ELSE NA
    /\ ret.cc_mcc_stats.gt_cc
         = Len(SelectSeq(GroundTruthSdx, LAMBDA item : GtSeverity(item) = CC))
    /\ ret.cc_mcc_stats.gt_mcc
         = Len(SelectSeq(GroundTruthSdx, LAMBDA item : GtSeverity(item) = MCC))

IsAccountCall ==
  call \in {"calculate_account_statistics", "create_cc_mcc_comparison_data"}

OwnParsedData ==
  [a \in DOMAIN parsed_data \cap {account_num} |-> parsed_data[a]]

OwnCsvData ==
  [pdx |-> [a \in DOMAIN csv_data.pdx \cap {account_num} |-> csv_data.pdx[a]],
   sdx |-> [a \in DOMAIN csv_data.sdx \cap {account_num} |-> csv_data.sdx[a]]]

OwnComparisonData ==
  [a \in DOMAIN comparison_data \cap {account_num} |-> comparison_data[a]]

\* C20: the statistics and the severity rows of an account are those of
\* the input with every other account taken out, whatever the other
\* accounts hold.
C20_OnlyOwnRecords ==
  /\ IsStatisticsCall =>
       ret = calculate_account_statistics(account_num, OwnParsedData, OwnCsvData,
                                          OwnComparisonData)
  /\ IsComparisonCall =>
       ret = create_cc_mcc_comparison_data(account_num, OwnParsedData, OwnCsvData)

\* another account with records of its own in every collection, next to
\* statistics that count the account's own
C20_Witness ==
  /\ IsStatisticsCall
  /\ \E other \in Accounts \ {account_num} :
       /\ other \in DOMAIN parsed_data
       /\ other \in DOMAIN csv_data.sdx
       /\ other \in DOMAIN csv_data.pdx
       /\ other \in DOMAIN comparison_data
  /\ ret.total_sdx > 0
  /\ ret.matched_icds > 0

----------------------------------------------------------------------------
(* Codes that stand for no code: C23                                       *)

\* a code that is empty, null, missing or the placeholder "-"
NoCode(c) == c \in {<<>>, None, Absent, <<"-">>}

\* the extracted records whose code is a code
ExtractedWithCode == SelectSeq(ExtractedRecords, LAMBDA d : ~NoCode(ExtractedCode(d)))

\* C23: a code that is empty, null or the placeholder "-" counts as no code
\* on both sides: it never makes pdx_matched true, it is not counted in
\* llm_matched_sdx, and a record that carries it is not counted in
\* matched_icds (as a candidate it is a mismatch).
C23_NoCodeNeverMatches ==
  IsStatisticsCall =>
    /\ ret.pdx_matched =>
         /\ GroundTruthPdx # <<>>
         /\ ~NoCode(GroundTruthPdx[1].icd_code)
         /\ ExtractedPdx # <<>>
         /\ ~NoCode(ExtractedCode(ExtractedPdx[1]))
    /\ ret.llm_matched_sdx <=
         Cardinality({c \in ExtractedSdxCodeSet \cap GroundTruthSdxCodes : ~NoCode(c)})
    /\ ret.matched_icds <= Len(ExtractedWithCode)

----------------------------------------------------------------------------
(* The feedback file and the accounts it completes                         *)

\* a feedback_data.xlsx that pandas cannot read or write (damaged, locked)
Unreadable == [exists |-> TRUE, readable |-> FALSE, rows |-> <<>>]

\* a feedback_data.xlsx that holds the rows
FeedbackFile(rows) == [exists |-> TRUE, readable |-> TRUE, rows |-> rows]

\* a row of feedback_data.xlsx as save_feedback_to_excel writes it
FeedbackRow(acct, icd, accept_reject) ==
  [account_number |-> acct, icd_code |-> icd, accept_reject |-> accept_reject]

\* the rows read_excel returns
FeedbackRows(file) == file.rows

\* load_completed_accounts: the account numbers of the rows of the file;
\* a missing file and an error of read_excel leave the set empty
load_completed_accounts(file) ==
  {FeedbackRows(file)[i].account_number : i \in 1..Len(FeedbackRows(file))}

----------------------------------------------------------------------------
(* The loop that creates SAMPLE_ACCOUNTS                                   *)

\* sdx_item.get('cc_mcc', '') or sdx_item.get('ccmcc', '')
CcMccTag(sdx_item) ==
  IF Truthy(ItemGet(sdx_item, "cc_mcc", <<>>))
  THEN ItemGet(sdx_item, "cc_mcc", <<>>)
  ELSE ItemGet(sdx_item, "ccmcc", <<>>)

\* the scan for a CC or MCC tag from row i on: "found" at the first row
\* tagged CC or MCC (the break), "raised" at a row whose tag is true and no
\* string (cc_mcc.upper() raises AttributeError), "none" at the end
RECURSIVE CcMccTagScan(_, _)
CcMccTagScan(rows, i) ==
  IF i > Len(rows) THEN "none"
  ELSE LET cc_mcc == CcMccTag(rows[i])
       IN IF ~Truthy(cc_mcc) THEN CcMccTagScan(rows, i + 1)
          ELSE IF ~IsStr(cc_mcc) THEN "raised"
          ELSE IF Upper(cc_mcc) \in {CC, MCC} THEN "found"
          ELSE CcMccTagScan(rows, i + 1)

\* DOCUMENTS_DATA.get(account_num, {})
Documents(acct, documents_data) == Get(documents_data, acct, EmptyDict)

\* the iteration of the account raises: it has documents and the scan of
\* its SDX rows meets a tag that is no string (no handler encloses it)
IterationRaises(acct, csv, documents_data) ==
  /\ Documents(acct, documents_data) # EmptyDict
  /\ CcMccTagScan(Get(csv.sdx, acct, <<>>), 1) = "raised"

\* pdx_coded_count = 0 if pdx_coded == 'N/A' or not pdx_coded else 1
PdxCodedCount(stats) ==
  IF stats.pdx_coded = NA \/ ~Truthy(stats.pdx_coded) THEN 0 ELSE 1

\* the test without the skip of an account that has no documents
IsIncludedWithoutDocuments(acct, stats, documents_data) ==
  stats.total_sdx > 0 \/ PdxCodedCount(stats) > 0

\* the account gets an entry: it is not skipped for having no documents
\* ("if not documents: continue") and it passes
\* "documents and (total_sdx > 0 or pdx_coded_count > 0)"
IsIncluded(acct, stats, documents_data) ==
  /\ Documents(acct, documents_data) # EmptyDict
  /\ stats.total_sdx > 0 \/ PdxCodedCount(stats) > 0

\* the entry of an account (patient_name, review_items and audited_data,
\* which come from files of their own, are left out); the test
\* "account_num in parsed_data" looks for the account number among the keys
\* of the account's own record, so diagnosis_comb_overlap stays empty
SampleAccount(acct, parsed, csv, comparison, documents_data, completed) ==
  LET stats == calculate_account_statistics(acct, parsed, csv, comparison)
  IN [id |-> acct,
      account_id |-> acct,
      total_sdx |-> stats.total_sdx,
      llm_matched_sdx |-> stats.llm_matched_sdx,
      matched_icds |-> stats.matched_icds,
      accuracy |-> stats.accuracy,
      pdx_coded |-> stats.pdx_coded,
      pdx_llm |-> stats.pdx_llm,
      pdx_matched |-> stats.pdx_matched,
      cc_mcc_stats |-> stats.cc_mcc_stats,
      cc_mcc_comparison |-> create_cc_mcc_comparison_data(acct, parsed, csv),
      has_cc_mcc_tags |-> CcMccTagScan(Get(csv.sdx, acct, <<>>), 1) = "found",
      diagnosis_comb_overlap |-> <<>>,
      reviewed |-> acct \in completed,
      documents |-> Documents(acct, documents_data),
      comparison_data |-> Get(comparison, acct, <<>>),
      parsed_data |-> parsed[acct],
      csv_data |-> [pdx |-> Get(csv.pdx, acct, <<>>),
                    sdx |-> Get(csv.sdx, acct, <<>>)]]

\* SAMPLE_ACCOUNTS[account_num] = {...}
PutAccount(accounts, acct, entry) ==
  [a \in DOMAIN accounts \cup {acct} |-> IF a = acct THEN entry ELSE accounts[a]]

----------------------------------------------------------------------------
(* Inputs of the loop                                                      *)

\* PARSED_RESULTS_DATA as load_parsed_results_data builds it: a record for
\* every row of the Excel file, whatever its lists hold
ParsedResultsFrom(w, rows) ==
  [a \in rows |->
     [coded_diagnoses |-> w[a].diag, combination_code_review |-> w[a].comb]]

\* the entry of an account in DOCUMENTS_DATA
DocumentOf(acct) ==
  "Combined Document" :>
    [title |-> "Combined Document", content |-> acct, color |-> "#6366f1"]

\* the orders in which a dict can hold the keys S
Orders(S) ==
  {s \in [1..Cardinality(S) -> S] : \A i, j \in DOMAIN s : s[i] = s[j] => i = j}

\* accounts as the files can hold them: with no record at all; with a
\* ground-truth PDX row and nothing extracted; well formed in every file;
\* with an SDX row without a tag (nan) before and after a row tagged CC;
\* with a null role in an extracted diagnosis; with an untagged SDX row
\* only; with a PDX row whose code is empty
OrchestrationRecords ==
  { AccountRecords(<<>>, <<>>, <<>>, <<>>, <<>>),
    AccountRecords(<<>>, <<>>, <<GtItem(<<"E", "1", "1">>, Absent, <<>>)>>, <<>>, <<>>),
    AccountRecords(<<DiagnosisItem(SDX, <<"E", "1", "1">>)>>,
                   <<GtItem(<<"E", "1", "1">>, CC, Absent)>>,
                   <<GtItem(<<"E", "1", "1">>, Absent, <<>>)>>,
                   <<CombItem(SDX, <<"E", "1", "1">>, CC)>>,
                   <<ComparisonItem(SDX, <<"E", "1", "1">>)>>),
    AccountRecords(<<DiagnosisItem(SDX, <<"E", "1", "1">>)>>,
                   <<GtItem(<<"E", "1">>, NaN, Absent),
                     GtItem(<<"E", "1", "1">>, CC, Absent)>>,
                   <<>>, <<>>, <<>>),
    AccountRecords(<<DiagnosisItem(SDX, <<"E", "1", "1">>)>>,
                   <<GtItem(<<"E", "1", "1">>, CC, Absent),
                     GtItem(<<"E", "1">>, NaN, Absent)>>,
                   <<>>, <<>>, <<>>),
    AccountRecords(<<DiagnosisItem(None, <<"E", "1", "1">>)>>,
                   <<GtItem(<<"E", "1", "1">>, CC, Absent)>>,
                   <<GtItem(<<"E", "1", "1">>, Absent, <<>>)>>,
                   <<>>, <<>>),
    AccountRecords(<<DiagnosisItem(PDX, <<"E", "1">>)>>,
                   <<GtItem(<<"E", "1">>, <<>>, Absent)>>,
                   <<>>, <<>>, <<>>),
    AccountRecords(<<DiagnosisItem(PDX, <<"E", "1">>)>>,
                   <<>>,
                   <<GtItem(<<>>, Absent, <<>>)>>,
                   <<>>, <<>>) }

\* feedback files: none, one that cannot be read, and the feedback of a
\* set of accounts
FeedbackFileOf(S) ==
  IF S = {} THEN NoFile
  ELSE LET order == SelectSeq(<<"a1", "a2">>, LAMBDA a : a \in S)
       IN FeedbackFile([i \in 1..Len(order) |->
                          FeedbackRow(order[i], <<"E", "1", "1">>, "accepted")])

FeedbackFiles == {Unreadable} \cup {FeedbackFileOf(S) : S \in SUBSET Accounts}

\* the module is loaded up to the loop: the files are read, the comparison
\* data is merged and the completed accounts are loaded
InitOrchestration ==
  /\ icd_code = None
  /\ account_num = "none"
  /\ \E w \in [Accounts -> OrchestrationRecords], rows \in SUBSET Accounts,
        with \in SUBSET Accounts, file \in FeedbackFiles :
       /\ parsed_data = ParsedResultsFrom(w, rows)
       /\ csv_data = CsvFrom(w)
       /\ comparison_data =
            merge_comparison_with_parsed_data(ComparisonFrom(w), ParsedResultsFrom(w, rows))
       /\ DOCUMENTS_DATA = [a \in with |-> DocumentOf(a)]
       /\ feedback_file = file
       /\ completed_accounts = load_completed_accounts(file)
       /\ todo \in Orders(rows)
  /\ SAMPLE_ACCOUNTS = EmptyDict
  /\ pending_accounts = {}
  /\ requests = EmptyDict
  /\ call = "none"
  /\ ret = "none"

\* one iteration of "for account_num, parsed_data in
\* PARSED_RESULTS_DATA.items()": the statistics, the skip of an account
\* without documents, the scan for tags and the entry; an AttributeError of
\* the scan ends the loop and the loading of the module
CreateSampleAccount ==
  /\ call \in {"none", "SAMPLE_ACCOUNTS"}
  /\ todo # <<>>
  /\ LET acct == Head(todo)
         stats == calculate_account_statistics(acct, parsed_data, csv_data, comparison_data)
     IN /\ account_num' = acct
        /\ ret' = stats
        /\ IF IterationRaises(acct, csv_data, DOCUMENTS_DATA)
           THEN /\ call' = "AttributeError"
                /\ UNCHANGED <<todo, SAMPLE_ACCOUNTS>>
           ELSE /\ call' = "SAMPLE_ACCOUNTS"
                /\ todo' = Tail(todo)
                /\ SAMPLE_ACCOUNTS' =
                     IF IsIncluded(acct, stats, DOCUMENTS_DATA)
                     THEN PutAccount(SAMPLE_ACCOUNTS, acct,
                                     SampleAccount(acct, parsed_data, csv_data, comparison_data,
                                                   DOCUMENTS_DATA, completed_accounts))
                     ELSE SAMPLE_ACCOUNTS
  /\ UNCHANGED <<icd_code, csv_data, parsed_data, comparison_data, DOCUMENTS_DATA,
                 completed_accounts, pending_accounts, feedback_file, requests>>

\* pending_accounts = set(SAMPLE_ACCOUNTS.keys()) - completed_accounts,
\* after the loop when there are parsed results
UpdatePendingAccounts ==
  /\ call \in {"none", "SAMPLE_ACCOUNTS"}
  /\ todo = <<>>
  /\ call' = "pending_accounts"
  /\ pending_accounts' = (DOMAIN SAMPLE_ACCOUNTS) \ completed_accounts
  /\ ret' = pending_accounts'
  /\ UNCHANGED <<icd_code, account_num, csv_data, parsed_data, comparison_data,
                 DOCUMENTS_DATA, SAMPLE_ACCOUNTS, completed_accounts, feedback_file,
                 todo, requests>>

NextOrchestration == CreateSampleAccount \/ UpdatePendingAccounts

SpecOrchestration == InitOrchestration /\ [][NextOrchestration]_vars

----------------------------------------------------------------------------
(* The accounts of SAMPLE_ACCOUNTS: C21 and C22                            *)

\* the account has an extracted record: a parsed diagnosis or a parsed
\* "comb" item
HasExtractedRecords(a) ==
  /\ a \in DOMAIN parsed_data
  /\ \/ parsed_data[a].coded_diagnoses # <<>>
     \/ parsed_data[a].combination_code_review # <<>>

\* the account has a ground-truth record: an SDX row or a PDX row
HasGroundTruthRecords(a) ==
  Get(csv_data.sdx, a, <<>>) # <<>> \/ Get(csv_data.pdx, a, <<>>) # <<>>

\* C21 as stated: the loop skips every account that has no extracted
\* diagnosis record, so that no account with an empty list of extracted
\* records is in SAMPLE_ACCOUNTS, and every entry is kept under its own
\* account id.
C21_NoEntryWithoutExtractedRecords ==
  \A a \in DOMAIN SAMPLE_ACCOUNTS :
    /\ HasExtractedRecords(a)
    /\ SAMPLE_ACCOUNTS[a].id = a

\* C21 amended: the loop skips every account that has no document data and
\* every account that has no ground-truth record (neither an SDX row nor a
\* PDX row), so that no such account is in SAMPLE_ACCOUNTS, and every entry
\* is kept under its own account id.
C21_NoEntryWithoutDocumentsOrGroundTruth ==
  \A a \in DOMAIN SAMPLE_ACCOUNTS :
    /\ a \in DOMAIN parsed_data
    /\ a \in DOMAIN DOCUMENTS_DATA
    /\ HasGroundTruthRecords(a)
    /\ SAMPLE_ACCOUNTS[a].id = a

\* the loop is over: one account has its entry, the other one, which has
\* ground-truth records and no documents, was skipped
C21_Witness ==
  /\ call = "pending_accounts"
  /\ \E a, b \in DOMAIN parsed_data :
       /\ a \in DOMAIN SAMPLE_ACCOUNTS
       /\ b \notin DOMAIN SAMPLE_ACCOUNTS
       /\ b \notin DOMAIN DOCUMENTS_DATA
       /\ HasGroundTruthRecords(b)

\* the loading is over: the loop came to its end or an error ended it
LoadingOver == call \in {"pending_accounts", "AttributeError"}

\* the account meets the conditions of an entry
MeetsInclusionConditions(a) ==
  IsIncluded(a, calculate_account_statistics(a, parsed_data, csv_data, comparison_data),
             DOCUMENTS_DATA)

\* C22: a failure in the iteration of one account does not keep the loop
\* from the other accounts: when the loading is over, every account of the
\* parsed results that meets the conditions of an entry, and whose own
\* iteration does not fail, has its entry in SAMPLE_ACCOUNTS.
C22_FailureLeavesOtherAccounts ==
  LoadingOver =>
    \A a \in DOMAIN parsed_data :
      (MeetsInclusionConditions(a) /\ ~IterationRaises(a, csv_data, DOCUMENTS_DATA))
        => a \in DOMAIN SAMPLE_ACCOUNTS

----------------------------------------------------------------------------
(* The request handlers of the review workflow                             *)

\* the loop run to its end: the entries of the accounts that are not
\* skipped (when no iteration raises)
LoadSampleAccounts(parsed, csv, comparison, documents_data, completed) ==
  [a \in {x \in DOMAIN parsed :
            IsIncluded(x, calculate_account_statistics(x, parsed, csv, comparison),
                       documents_data)} |->
     SampleAccount(a, parsed, csv, comparison, documents_data, completed)]

\* a field of the posted form: a key status_<icd>_<index> with the verdict,
\* or another key (the comment of a code, pdx_feedback, ...)
FormField(key, icd, index, value) ==
  [key |-> key, icd_code |-> icd, index |-> index, value |-> value]

\* feedback_items: one item for every key of the form that starts with
\* status_, in the order of the form
FeedbackItems(form) ==
  LET fields == SelectSeq(form, LAMBDA f : f.key = "status")
  IN [i \in 1..Len(fields) |->
        [icd_code |-> fields[i].icd_code, status |-> fields[i].value]]

\* the rows df[df['account_number'].astype(str) == str(account_id)]
ExistingFeedback(rows, account_id) ==
  SelectSeq(rows, LAMBDA row : row.account_number = account_id)

\* the rows df[df['account_number'].astype(str) != str(account_id)]
OtherFeedback(rows, account_id) ==
  SelectSeq(rows, LAMBDA row : row.account_number # account_id)

\* the rows with one more row for every item of the feedback
AppendFeedback(rows, account_id, feedback_items) ==
  rows \o [i \in 1..Len(feedback_items) |->
             FeedbackRow(account_id, feedback_items[i].icd_code, feedback_items[i].status)]

\* the duplicate test of submit_feedback: the file exists, it is read and
\* holds a row of the account (an error of the test is logged and the
\* request goes on)
FeedbackExists(file, account_id) ==
  /\ file.exists
  /\ file.readable
  /\ ExistingFeedback(FeedbackRows(file), account_id) # <<>>

\* save_feedback_to_excel: the file after the call; the rows that are read
\* (none without a file) and the new rows are written back, and an error of
\* read_excel or to_excel is logged and leaves the file as it is
save_feedback_to_excel(file, account_id, feedback_items) ==
  IF file.exists /\ ~file.readable THEN file
  ELSE FeedbackFile(AppendFeedback(FeedbackRows(file), account_id, feedback_items))

\* what a handler answers: the HTTP status, the 'status' of the JSON body
\* ("none" where the body has none), the account and the feedback items of
\* the body
Response(code, status, account_id, feedback) ==
  [code |-> code, status |-> status, account_id |-> account_id, feedback |-> feedback]

\* the most fields of a posted form
MaxFields == 2

\* the fields a review form can post
FormFields ==
  { FormField("status", <<"E", "1", "1">>, 0, "accept"),
    FormField("status", <<"E", "1", "2">>, 1, "reject"),
    FormField("pdx_feedback", <<>>, 0, "text") }

\* the forms: at most MaxFields fields, no key twice
Forms ==
  {form \in SeqsUpTo(FormFields, MaxFields) :
     \A i, j \in DOMAIN form : form[i] = form[j] => i = j}

\* the accounts of the workflow: well formed in every file, or with a
\* ground-truth PDX row and nothing extracted
WorkflowRecords ==
  { AccountRecords(<<DiagnosisItem(SDX, <<"E", "1", "1">>)>>,
                   <<GtItem(<<"E", "1", "1">>, CC, Absent)>>,
                   <<GtItem(<<"E", "1", "1">>, Absent, <<>>)>>,
                   <<CombItem(SDX, <<"E", "1", "1">>, CC)>>,
                   <<ComparisonItem(SDX, <<"E", "1", "1">>)>>),
    AccountRecords(<<>>, <<>>, <<GtItem(<<"E", "1", "1">>, Absent, <<>>)>>, <<>>, <<>>) }

\* the module is loaded: the loop has run to its end and pending_accounts
\* is set; no request has been served
InitWorkflow ==
  /\ icd_code = None
  /\ account_num = "none"
  /\ \E w \in [Accounts -> WorkflowRecords], with \in SUBSET Accounts,
        file \in FeedbackFiles :
       /\ parsed_data = ParsedResultsFrom(w, Accounts)
       /\ csv_data = CsvFrom(w)
       /\ comparison_data =
            merge_comparison_with_parsed_data(ComparisonFrom(w), ParsedResultsFrom(w, Accounts))
       /\ DOCUMENTS_DATA = [a \in with |-> DocumentOf(a)]
       /\ feedback_file = file
       /\ completed_accounts = load_completed_accounts(file)
  /\ SAMPLE_ACCOUNTS =
       LoadSampleAccounts(parsed_data, csv_data, comparison_data, DOCUMENTS_DATA,
                          completed_accounts)
  /\ pending_accounts = (DOMAIN SAMPLE_ACCOUNTS) \ completed_accounts
  /\ todo = <<>>
  /\ requests = EmptyDict
  /\ call = "none"
  /\ ret = "none"

loaded_vars ==
  <<icd_code, csv_data, parsed_data, comparison_data, DOCUMENTS_DATA, SAMPLE_ACCOUNTS,
    todo, requests>>

\* submit_feedback without pending_accounts.discard(account_id)
SubmitFeedbackKeepingPending ==
  \E account_id \in Accounts, form \in Forms :
    /\ call' = "submit_feedback"
    /\ account_num' = account_id
    /\ IF account_id \notin DOMAIN SAMPLE_ACCOUNTS
       THEN /\ ret' = Response(404, "none", account_id, <<>>)
            /\ UNCHANGED <<completed_accounts, pending_accounts, feedback_file>>
       ELSE IF FeedbackExists(feedback_file, account_id)
       THEN /\ ret' = Response(400, "error", account_id, <<>>)
            /\ UNCHANGED <<completed_accounts, pending_accounts, feedback_file>>
       ELSE /\ feedback_file' =
                 save_feedback_to_excel(feedback_file, account_id, FeedbackItems(form))
            /\ completed_accounts' = completed_accounts \cup {account_id}
            /\ UNCHANGED pending_accounts
            /\ ret' = Response(200, "success", account_id, FeedbackItems(form))
    /\ UNCHANGED loaded_vars

\* submit_feedback, served alone: 404 for an unknown account, 400 when the
\* file holds feedback of the account; else the feedback is saved, the
\* account leaves pending_accounts and enters completed_accounts, and the
\* answer is success (the audit time, kept in a file of its own, is left
\* out)
SubmitFeedback ==
  \E account_id \in Accounts, form \in Forms :
    /\ call' = "submit_feedback"
    /\ account_num' = account_id
    /\ IF account_id \notin DOMAIN SAMPLE_ACCOUNTS
       THEN /\ ret' = Response(404, "none", account_id, <<>>)
            /\ UNCHANGED <<completed_accounts, pending_accounts, feedback_file>>
       ELSE IF FeedbackExists(feedback_file, account_id)
       THEN /\ ret' = Response(400, "error", account_id, <<>>)
            /\ UNCHANGED <<completed_accounts, pending_accounts, feedback_file>>
       ELSE /\ feedback_file' =
                 save_feedback_to_excel(feedback_file, account_id, FeedbackItems(form))
            /\ pending_accounts' = pending_accounts \ {account_id}
            /\ completed_accounts' = completed_accounts \cup {account_id}
            /\ ret' = Response(200, "success", account_id, FeedbackItems(form))
    /\ UNCHANGED loaded_vars

\* move_to_queue, served alone: the account leaves completed_accounts and,
\* when it is an account of SAMPLE_ACCOUNTS, enters pending_accounts; then
\* its rows are taken out of the file, and an error of read_excel or
\* to_excel gives the answer 500
MoveToQueue ==
  \E account_id \in Accounts :
    /\ call' = "move_to_queue"
    /\ account_num' = account_id
    /\ completed_accounts' = completed_accounts \ {account_id}
    /\ pending_accounts' =
         IF account_id \in DOMAIN SAMPLE_ACCOUNTS
         THEN pending_accounts \cup {account_id}
         ELSE pending_accounts
    /\ IF ~feedback_file.exists
       THEN /\ ret' = Response(200, "success", account_id, <<>>)
            /\ UNCHANGED feedback_file
       ELSE IF ~feedback_file.readable
       THEN /\ ret' = Response(500, "error", account_id, <<>>)
            /\ UNCHANGED feedback_file
       ELSE /\ feedback_file' =
                 FeedbackFile(OtherFeedback(FeedbackRows(feedback_file), account_id))
            /\ ret' = Response(200, "success", account_id, <<>>)
    /\ UNCHANGED loaded_vars

\* get_random_unreviewed: random.choice over the keys of SAMPLE_ACCOUNTS,
\* 404 when there is no key
GetRandomUnreviewed ==
  /\ call' = "get_random_unreviewed"
  /\ IF DOMAIN SAMPLE_ACCOUNTS = {}
     THEN /\ ret' = Response(404, "No accounts available", "none", <<>>)
          /\ UNCHANGED account_num
     ELSE \E random_account \in DOMAIN SAMPLE_ACCOUNTS :
            /\ ret' = Response(200, "none", random_account, <<>>)
            /\ account_num' = random_account
  /\ UNCHANGED <<completed_accounts, pending_accounts, feedback_file>>
  /\ UNCHANGED loaded_vars

\* review: 404 for an unknown account, a redirect to the lookup page for a
\* completed account, the review page for another one
Review ==
  \E account_id \in Accounts :
    /\ call' = "review"
    /\ account_num' = account_id
    /\ ret' = IF account_id \notin DOMAIN SAMPLE_ACCOUNTS
              THEN Response(404, "none", account_id, <<>>)
              ELSE IF account_id \in completed_accounts
              THEN Response(302, "lookup_account", account_id, <<>>)
              ELSE Response(200, "review.html", account_id, <<>>)
    /\ UNCHANGED <<completed_accounts, pending_accounts, feedback_file>>
    /\ UNCHANGED loaded_vars

NextWorkflow == SubmitFeedback \/ MoveToQueue \/ GetRandomUnreviewed \/ Review

SpecWorkflow == InitWorkflow /\ [][NextWorkflow]_vars

----------------------------------------------------------------------------
(* The review workflow, one request at a time: C26 to C30                  *)

\* the rows of the feedback file for the account
StoredFeedback(a) == ExistingFeedback(FeedbackRows(feedback_file), a)

\* the last request was answered with success
Succeeded(handler) == call = handler /\ ret.status = "success"

\* C26: in every state reached by a sequence of submit_feedback and
\* move_to_queue requests, pending_accounts and completed_accounts are
\* disjoint, every account of SAMPLE_ACCOUNTS is in exactly one of them,
\* and pending_accounts holds accounts of SAMPLE_ACCOUNTS only.
C26_PendingAndCompletedPartition ==
  /\ pending_accounts \cap completed_accounts = {}
  /\ \A a \in DOMAIN SAMPLE_ACCOUNTS :
       (a \in pending_accounts) # (a \in completed_accounts)
  /\ pending_accounts \subseteq DOMAIN SAMPLE_ACCOUNTS

\* an account was moved back to the queue after the feedback of the other
\* account had been submitted and stored
C26_Witness ==
  /\ Succeeded("move_to_queue")
  /\ account_num \in pending_accounts
  /\ account_num \notin completed_accounts
  /\ \E b \in completed_accounts \cap DOMAIN SAMPLE_ACCOUNTS :
       /\ b \notin pending_accounts
       /\ \E i \in 1..Len(StoredFeedback(b)) : StoredFeedback(b)[i].accept_reject = "reject"

\* C27: in every state reached by a sequence of submit_feedback and
\* move_to_queue requests, every account of completed_accounts has a row in
\* the feedback file, and a submit_feedback answered with success has
\* stored the feedback it was given.
C27_CompletedAccountsHaveFeedback ==
  /\ \A a \in completed_accounts : StoredFeedback(a) # <<>>
  /\ Succeeded("submit_feedback") =>
       /\ StoredFeedback(account_num) # <<>>
       /\ StoredFeedback(account_num) = AppendFeedback(<<>>, account_num, ret.feedback)

\* C28: a move_to_queue answered with an error has changed nothing
\* (completed_accounts, pending_accounts and the feedback file are as
\* before); after one answered with success the account is not in
\* completed_accounts, the file holds no row of it, and it is in
\* pending_accounts exactly when it is in SAMPLE_ACCOUNTS.
C28_MoveToQueueAllOrNothing ==
  [][ (call' = "move_to_queue") =>
        /\ ret'.status = "error" =>
             UNCHANGED <<completed_accounts, pending_accounts, feedback_file>>
        /\ ret'.status = "success" =>
             /\ account_num' \notin completed_accounts'
             /\ ExistingFeedback(FeedbackRows(feedback_file'), account_num') = <<>>
             /\ (account_num' \in pending_accounts'
                   <=> account_num' \in DOMAIN SAMPLE_ACCOUNTS') ]_vars

\* C29: in every state reached by a sequence of submit_feedback and
\* move_to_queue requests, the field "reviewed" of every account of
\* SAMPLE_ACCOUNTS is true exactly when the account is in
\* completed_accounts.
C29_ReviewedIffCompleted ==
  \A a \in DOMAIN SAMPLE_ACCOUNTS :
    SAMPLE_ACCOUNTS[a].reviewed <=> a \in completed_accounts

\* C30: the account get_random_unreviewed returns is in SAMPLE_ACCOUNTS and
\* not in completed_accounts, and the handler reports that no account is
\* available when SAMPLE_ACCOUNTS has no account that is not completed.
C30_RandomAccountIsUnreviewed ==
  call = "get_random_unreviewed" =>
    IF (DOMAIN SAMPLE_ACCOUNTS) \ completed_accounts = {}
    THEN ret.code = 404
    ELSE /\ ret.code = 200
         /\ ret.account_id \in (DOMAIN SAMPLE_ACCOUNTS) \ completed_accounts

----------------------------------------------------------------------------
(* Two requests served by two threads                                      *)

\* a request on its way through its handler: where it stands, the rows it
\* has read from the file (df) and its answer
Request(handler, account_id, form) ==
  [handler |-> handler, account_id |-> account_id, form |-> form,
   pc |-> "start", df |-> <<>>, response |-> Response(0, "none", account_id, <<>>)]

\* the requests that can come in: feedback with a verdict on a code at
\* least, and moves back to the queue
Requests ==
  {Request("submit_feedback", a, form) :
     a \in Accounts, form \in {f \in Forms : FeedbackItems(f) # <<>>}}
    \cup {Request("move_to_queue", a, <<>>) : a \in Accounts}

\* both accounts are loaded with documents, the feedback file (if there is
\* one) can be read and written, and two requests have come in
InitConcurrent ==
  /\ icd_code = None
  /\ account_num = "none"
  /\ \E file \in FeedbackFiles \ {Unreadable} :
       LET records == CHOOSE rec \in WorkflowRecords : rec.diag # <<>>
           w == [a \in Accounts |-> records]
       IN /\ parsed_data = ParsedResultsFrom(w, Accounts)
          /\ csv_data = CsvFrom(w)
          /\ comparison_data =
               merge_comparison_with_parsed_data(ComparisonFrom(w),
                                                 ParsedResultsFrom(w, Accounts))
          /\ feedback_file = file
          /\ completed_accounts = load_completed_accounts(file)
  /\ DOCUMENTS_DATA = [a \in Accounts |-> DocumentOf(a)]
  /\ SAMPLE_ACCOUNTS =
       LoadSampleAccounts(parsed_data, csv_data, comparison_data, DOCUMENTS_DATA,
                          completed_accounts)
  /\ pending_accounts = (DOMAIN SAMPLE_ACCOUNTS) \ completed_accounts
  /\ todo = <<>>
  /\ requests \in [{"r1", "r2"} -> Requests]
  /\ call = "none"
  /\ ret = "none"

static_vars ==
  <<icd_code, csv_data, parsed_data, comparison_data, DOCUMENTS_DATA, SAMPLE_ACCOUNTS, todo>>

\* request r goes on to pc with the rows df and the answer response
Step(r, pc, df, response) ==
  /\ requests' = [requests EXCEPT ![r].pc = pc, ![r].df = df, ![r].response = response]
  /\ call' = requests[r].handler
  /\ account_num' = requests[r].account_id
  /\ ret' = response
  /\ UNCHANGED static_vars

At(r, handler, pc) == requests[r].handler = handler /\ requests[r].pc = pc

\* submit_feedback up to its try block: the account and the duplicate test
CheckExistingFeedback(r) ==
  LET req == requests[r]
  IN /\ At(r, "submit_feedback", "start")
     /\ IF req.account_id \notin DOMAIN SAMPLE_ACCOUNTS
        THEN Step(r, "done", req.df, Response(404, "none", req.account_id, <<>>))
        ELSE IF FeedbackExists(feedback_file, req.account_id)
        THEN Step(r, "done", req.df, Response(400, "error", req.account_id, <<>>))
        ELSE Step(r, "read", req.df, req.response)
     /\ UNCHANGED <<completed_accounts, pending_accounts, feedback_file>>

\* save_feedback_to_excel reads the file; an error skips the rest of it
ReadFeedback(r) ==
  LET req == requests[r]
  IN /\ At(r, "submit_feedback", "read")
     /\ IF feedback_file.exists /\ ~feedback_file.readable
        THEN Step(r, "discard", req.df, req.response)
        ELSE Step(r, "write", FeedbackRows(feedback_file), req.response)
     /\ UNCHANGED <<completed_accounts, pending_accounts, feedback_file>>

\* save_feedback_to_excel writes the rows it has read and the new rows
WriteFeedback(r) ==
  LET req == requests[r]
  IN /\ At(r, "submit_feedback", "write")
     /\ feedback_file' =
          FeedbackFile(AppendFeedback(req.df, req.account_id, FeedbackItems(req.form)))
     /\ Step(r, "discard", req.df, req.response)
     /\ UNCHANGED <<completed_accounts, pending_accounts>>

\* pending_accounts.discard(account_id)
DiscardPending(r) ==
  LET req == requests[r]
  IN /\ At(r, "submit_feedback", "discard")
     /\ pending_accounts' = pending_accounts \ {req.account_id}
     /\ Step(r, "add", req.df, req.response)
     /\ UNCHANGED <<completed_accounts, feedback_file>>

\* completed_accounts.add(account_id) and the answer
AddCompleted(r) ==
  LET req == requests[r]
  IN /\ At(r, "submit_feedback", "add")
     /\ completed_accounts' = completed_accounts \cup {req.account_id}
     /\ Step(r, "done", req.df,
             Response(200, "success", req.account_id, FeedbackItems(req.form)))
     /\ UNCHANGED <<pending_accounts, feedback_file>>

\* move_to_queue: completed_accounts.remove(account_id) when it is there
RemoveCompleted(r) ==
  LET req == requests[r]
  IN /\ At(r, "move_to_queue", "start")
     /\ completed_accounts' = completed_accounts \ {req.account_id}
     /\ Step(r, "add", req.df, req.response)
     /\ UNCHANGED <<pending_accounts, feedback_file>>

\* move_to_queue: pending_accounts.add(account_id) for a known account
AddPending(r) ==
  LET req == requests[r]
  IN /\ At(r, "move_to_queue", "add")
     /\ pending_accounts' =
          IF req.account_id \in DOMAIN SAMPLE_ACCOUNTS
          THEN pending_accounts \cup {req.account_id}
          ELSE pending_accounts
     /\ Step(r, "read", req.df, req.response)
     /\ UNCHANGED <<completed_accounts, feedback_file>>

\* move_to_queue reads the file and drops the rows of the account
ReadForRemoval(r) ==
  LET req == requests[r]
  IN /\ At(r, "move_to_queue", "read")
     /\ IF ~feedback_file.exists
        THEN Step(r, "done", req.df, Response(200, "success", req.account_id, <<>>))
        ELSE IF ~feedback_file.readable
        THEN Step(r, "done", req.df, Response(500, "error", req.account_id, <<>>))
        ELSE Step(r, "write", OtherFeedback(FeedbackRows(feedback_file), req.account_id),
                  req.response)
     /\ UNCHANGED <<completed_accounts, pending_accounts, feedback_file>>

\* move_to_queue writes the rows it kept and answers
WriteRemoval(r) ==
  LET req == requests[r]
  IN /\ At(r, "move_to_queue", "write")
     /\ feedback_file' = FeedbackFile(req.df)
     /\ Step(r, "done", req.df, Response(200, "success", req.account_id, <<>>))
     /\ UNCHANGED <<completed_accounts, pending_accounts>>

NextConcurrent ==
  \E r \in DOMAIN requests :
    \/ CheckExistingFeedback(r)
    \/ ReadFeedback(r)
    \/ WriteFeedback(r)
    \/ DiscardPending(r)
    \/ AddCompleted(r)
    \/ RemoveCompleted(r)
    \/ AddPending(r)
    \/ ReadForRemoval(r)
    \/ WriteRemoval(r)

SpecConcurrent == InitConcurrent /\ [][NextConcurrent]_vars

----------------------------------------------------------------------------
(* Overlapping submissions: C24 and C25                                    *)

\* both requests are submit_feedback requests and both are answered
BothSubmitted ==
  /\ DOMAIN requests = {"r1", "r2"}
  /\ \A r \in DOMAIN requests :
       requests[r].handler = "submit_feedback" /\ requests[r].pc = "done"

Success(r) == requests[r].response.status = "success"

\* the rows the request asks to store
SubmittedRows(r) ==
  AppendFeedback(<<>>, requests[r].account_id, FeedbackItems(requests[r].form))

\* C24: of two submit_feedback requests for one account, however they
\* overlap, at most one is answered with success and the rows of at most
\* one are in the feedback file at the end.
C24_OneSubmissionPerAccount ==
  (BothSubmitted /\ requests["r1"].account_id = requests["r2"].account_id) =>
    /\ ~(Success("r1") /\ Success("r2"))
    /\ \A r \in DOMAIN requests :
         Success(r) => StoredFeedback(requests[r].account_id) = SubmittedRows(r)

\* C25: when two submit_feedback requests for two accounts are both
\* answered with success, however they overlap, the feedback file holds the
\* rows of both at the end.
C25_NoSubmissionLost ==
  ( /\ BothSubmitted
    /\ requests["r1"].account_id # requests["r2"].account_id
    /\ Success("r1")
    /\ Success("r2") ) =>
    \A r \in DOMAIN requests :
      StoredFeedback(requests[r].account_id) = SubmittedRows(r)

====
